---- MODULE Spec2Model ----
(***************************************************************************)
(* Model of the disk-backed key-value store (src/kv_database), of the      *)
(* tokenizer (src/tokenizer.rs), of the query engine                       *)
(* (src/search/engine.rs), of the interactive loop (src/main.rs), of the   *)
(* index builder (src/inverted_index/disk_inverted_index.rs) and of the    *)
(* legacy store (src/inverted_index_db/mod.rs) of search-engine-rust.      *)
(*                                                                         *)
(* A file is a sequence of cells; one cell stands for one fixed-width      *)
(* field of the bincode encoding (a length prefix, an element, an offset). *)
(* Offsets and lengths are counted in cells.                               *)
(***************************************************************************)
EXTENDS Integers, Sequences, FiniteSets, TLC

VARIABLES files, inodes, store, pc, cur, hist, crashed, opened, iter

\* the query engine: the opened index, the last query and what search returned
VARIABLES inverted_index_db, query, results

\* the index builder: one run of DiskInvertedIndex::new
VARIABLE build

kvvars == <<files, inodes, store, pc, cur, hist, crashed, opened, iter>>

searchvars == <<inverted_index_db, query, results>>

buildvars == <<build>>

\* the entries the directory walk yields
crawled_data == build.crawled_data
\* the words the tokenizer's vocabulary holds whole
vocab == build.vocab
\* the files of the index
disk == build.disk

vars == <<files, inodes, store, pc, cur, hist, crashed, opened, iter,
          inverted_index_db, query, results, build>>

(***************************************************************************)
(* Bounds.                                                                 *)
(***************************************************************************)
\* number of insert/extend calls made on a store since it was created
MaxOps == 2
\* elements of the values are 1..MaxElem
MaxElem == 2

KeySeq == <<"hello", "world">>
Keys == {KeySeq[i] : i \in 1..Len(KeySeq)}
Elems == 1..MaxElem
\* a batch binds a key to an empty or a one-element Vec; extend grows the
\* stored values
Values == {<<>>} \cup {<<e>> : e \in Elems}
Batches == UNION {[S -> Values] : S \in SUBSET Keys}

NoStore == [open |-> FALSE]
NoOp == [op |-> "none"]
NoCrash == [at |-> "none"]
NoIter == [active |-> FALSE]
NoIndex == [db |-> <<>>, url_map |-> <<>>]
NoResults == [tag |-> "none"]
NoBuild == [pc |-> "none"]

(***************************************************************************)
(* Paths.  A path is <<stem, extension>>.                                  *)
(***************************************************************************)
TEMP_FILE_SUFFIX == "tmp"

WithExtension(path, ext) == <<path[1], ext>>

db_path == <<"tests/store", "db">>
seek_path == WithExtension(db_path, "seek")
Paths == {db_path, seek_path, WithExtension(db_path, TEMP_FILE_SUFFIX)}

\* format!("{}{}", path.display(), suffix)
AppendSuffix(path, suffix) ==
    IF path[2] = "" THEN <<path[1] \o suffix, "">> ELSE <<path[1], path[2] \o suffix>>

\* the temp_db_path of calculate_scores
ScoresTempPath(path) == AppendSuffix(path, TEMP_FILE_SUFFIX)

\* the paths the program is run with when none is given
args_db == <<"database", "db">>
args_url_map == <<"url_map", "db">>

\* the paths of a run: those of main's defaults, or a postings path given
\* without an extension, or one given with the extension tmp
Args(db, url_map) == [db |-> db, url_map |-> url_map]
DefaultArgs == Args(args_db, args_url_map)
ArgSets ==
    {DefaultArgs, Args(<<"index", "">>, args_url_map),
     Args(<<"index", TEMP_FILE_SUFFIX>>, args_url_map)}

BuildRoots ==
    UNION {{a.db, a.url_map, ScoresTempPath(a.db)} : a \in ArgSets}
BuildPaths ==
    UNION {{p, WithExtension(p, "seek"), WithExtension(p, TEMP_FILE_SUFFIX)} : p \in BuildRoots}

\* the disk before the build: no file of the index exists
EmptyDisk == [names |-> [p \in BuildPaths |-> 0], inodes |-> <<>>, gen |-> 0]

(***************************************************************************)
(* Results.                                                                *)
(***************************************************************************)
Err == [tag |-> "Err"]
None == [tag |-> "None"]
Some(v) == [tag |-> "Some", val |-> v]

Perms(S) == {f \in [1..Cardinality(S) -> S] : \A i, j \in 1..Cardinality(S) : f[i] = f[j] => i = j}

(***************************************************************************)
(* The codec (bincode): a Vec is its length followed by its elements; a    *)
(* map is its number of entries followed by the entries.  Decoding reads a *)
(* prefix of the buffer and fails when the buffer is too short.            *)
(***************************************************************************)
Serialize(v) == <<Len(v)>> \o v

Deserialize(buf) ==
    IF Len(buf) = 0 THEN Err
    ELSE IF Len(buf) - 1 < buf[1] THEN Err
    ELSE Some(SubSeq(buf, 2, 1 + buf[1]))

\* a key is written as one cell holding its code
KeyCode(k) == CHOOSE i \in 1..Len(KeySeq) : KeySeq[i] = k

SeekPos(pos, len) == [pos |-> pos, len |-> len]

\* SerializeEntries with the two fields of SeekPos written in the other order
RECURSIVE SerializeEntriesSwapped(_, _)
SerializeEntriesSwapped(m, order) ==
    IF Len(order) = 0 THEN <<>>
    ELSE <<KeyCode(order[1]), m[order[1]].len, m[order[1]].pos>>
         \o SerializeEntriesSwapped(m, Tail(order))

RECURSIVE SerializeEntries(_, _)
SerializeEntries(m, order) ==
    IF Len(order) = 0 THEN <<>>
    ELSE <<KeyCode(order[1]), m[order[1]].pos, m[order[1]].len>>
         \o SerializeEntries(m, Tail(order))

\* the keys of m in the order of their codes
RECURSIVE KeyOrder(_, _)
KeyOrder(m, i) ==
    IF i > Len(KeySeq) THEN <<>>
    ELSE (IF KeySeq[i] \in DOMAIN m THEN <<KeySeq[i]>> ELSE <<>>) \o KeyOrder(m, i + 1)

\* bincode writes the entries in the iteration order of the HashMap; the
\* decoder builds the same map from every order, and the model writes the
\* entries in the order of the key codes
SerializeMap(m) == <<Cardinality(DOMAIN m)>> \o SerializeEntries(m, KeyOrder(m, 1))

DeserializeMap(buf) ==
    IF Len(buf) = 0 THEN Err
    ELSE IF Len(buf) - 1 < 3 * buf[1] THEN Err
    ELSE IF \E i \in 1..buf[1] : buf[3 * i - 1] \notin 1..Len(KeySeq) THEN Err
    ELSE LET n == buf[1]
             ks == {KeySeq[buf[3 * i - 1]] : i \in 1..n}
             last(k) == CHOOSE i \in 1..n :
                          /\ KeySeq[buf[3 * i - 1]] = k
                          /\ \A j \in 1..n : KeySeq[buf[3 * j - 1]] = k => j <= i
         IN Some([k \in ks |-> SeekPos(buf[3 * last(k)], buf[3 * last(k) + 1])])

(***************************************************************************)
(* The file system.  files tells which paths exist; inodes holds the       *)
(* content of the file at each path and of the one file that is open but   *)
(* no longer linked (the old data file between remove_file and the reopen).*)
(* A handle names the slot of its file and follows it through rename and   *)
(* remove_file, as a file descriptor does.                                 *)
(*                                                                         *)
(* A world is the part of the state an operation of the store works on:    *)
(* [files, inodes, store, pc, cur, ret].                                   *)
(***************************************************************************)
Unlinked == <<"(unlinked)", "">>
Slots == Paths \cup {Unlinked}

Handles(w) ==
    (IF w.store.open THEN {w.store.database.ino} ELSE {})
    \cup (IF w.cur.op # "none" THEN {w.cur.writer} ELSE {})

\* the handles at slot a now are at slot b
Retarget(w, a, b) ==
    [w EXCEPT !.store = IF w.store.open /\ w.store.database.ino = a
                        THEN [w.store EXCEPT !.database.ino = b] ELSE @,
              !.cur = IF w.cur.op # "none" /\ w.cur.writer = a
                      THEN [w.cur EXCEPT !.writer = b] ELSE @]

\* the content of a file nothing names any more is gone
Collect(w) ==
    [w EXCEPT !.inodes = [s \in Slots |->
        IF (s \in Paths /\ w.files[s]) \/ s \in Handles(w) THEN w.inodes[s] ELSE <<>>]]

\* File::create: truncate the file when it exists, else make it
FsCreate(w, path) == [w EXCEPT !.files[path] = TRUE, !.inodes[path] = <<>>]

\* remove_file of an existing file
FsRemove(w, path) ==
    LET w1 == IF path \in Handles(w)
              THEN Retarget([w EXCEPT !.inodes[Unlinked] = w.inodes[path]], path, Unlinked)
              ELSE w
    IN [w1 EXCEPT !.files[path] = FALSE, !.inodes[path] = <<>>]

\* rename of an existing file from over the path to
FsRename(w, from, to) ==
    IF from = to THEN w
    ELSE LET w1 == IF w.files[to] THEN FsRemove(w, to) ELSE w
             w2 == Retarget([w1 EXCEPT !.inodes[to] = w1.inodes[from]], from, to)
         IN [w2 EXCEPT !.files[to] = TRUE, !.files[from] = FALSE, !.inodes[from] = <<>>]

FileContent(path) == IF files[path] THEN Some(inodes[path]) ELSE None

\* seek(SeekFrom::Start(pos)) then read_exact of len cells through a handle
ReadExact(ino, handle, pos, len) ==
    IF ~handle.readable THEN Err
    ELSE IF pos + len > Len(ino[handle.ino]) THEN Err
    ELSE Some(SubSeq(ino[handle.ino], pos + 1, pos + len))

(***************************************************************************)
(* KVDatabase::get                                                         *)
(***************************************************************************)
GetFrom(ino, st, key) ==
    IF key \in DOMAIN st.seek_pos_map
    THEN LET r == ReadExact(ino, st.database, st.seek_pos_map[key].pos,
                            st.seek_pos_map[key].len)
         IN IF r.tag = "Err" THEN Err
            ELSE LET d == Deserialize(r.val)
                 IN IF d.tag = "Err" THEN Err ELSE Some(d.val)
    ELSE None

Get(key) == GetFrom(inodes, store, key)

(***************************************************************************)
(* The rebuild of the data file shared by insert and extend.               *)
(***************************************************************************)
EmptyMap == [k \in {} |-> SeekPos(0, 0)]

MapPut(m, key, sp) == [k \in DOMAIN m \cup {key} |-> IF k = key THEN sp ELSE m[k]]

\* IsEmpty without the early return
IsEmptyNever(hashmap) == FALSE

IsEmpty(hashmap) == DOMAIN hashmap = {}

\* KeepOld with no old value copied
KeepOldNever(key, hashmap) == FALSE

\* KeepOld with every old value copied, those the batch supersedes too
KeepOldAlways(key, hashmap) == TRUE

\* the guard of the copy loop: keys of the batch are not copied
KeepOld(key, hashmap) == key \notin DOMAIN hashmap

\* StreamPosition of a writer that is never advanced
StreamPositionStuck(buf) == 0

\* where the next blob goes: temp_db_writer.stream_position()
StreamPosition(buf) == Len(buf)

\* ExtendValue with the new elements put first
ExtendValuePrepend(old_value, value) == value \o old_value

\* old_value.extend(value)
ExtendValue(old_value, value) == old_value \o value

Acc(buf, map) == [tag |-> "Ok", buf |-> buf, map |-> map]
Failed(acc) == [tag |-> "Err", buf |-> acc.buf, map |-> acc.map]

\* a copy that leaves the copied entries at their old positions in the manifest
RECURSIVE CopyOldKeepsPos(_, _, _, _, _)
CopyOldKeepsPos(ino, st, hashmap, order, acc) ==
    IF acc.tag = "Err" \/ Len(order) = 0 THEN acc
    ELSE LET key == order[1]
             seek_pos == st.seek_pos_map[key]
         IN IF ~KeepOld(key, hashmap)
            THEN CopyOldKeepsPos(ino, st, hashmap, Tail(order), acc)
            ELSE LET r == ReadExact(ino, st.database, seek_pos.pos, seek_pos.len)
                 IN IF r.tag = "Err" THEN Failed(acc)
                    ELSE CopyOldKeepsPos(ino, st, hashmap, Tail(order),
                                         Acc(acc.buf \o r.val,
                                             MapPut(acc.map, key, seek_pos)))

\* "Copy the old values to the new file"; order is the iteration order of
\* self.seek_pos_map
RECURSIVE CopyOld(_, _, _, _, _)
CopyOld(ino, st, hashmap, order, acc) ==
    IF acc.tag = "Err" \/ Len(order) = 0 THEN acc
    ELSE LET key == order[1]
             seek_pos == st.seek_pos_map[key]
         IN IF ~KeepOld(key, hashmap)
            THEN CopyOld(ino, st, hashmap, Tail(order), acc)
            ELSE LET r == ReadExact(ino, st.database, seek_pos.pos, seek_pos.len)
                 IN IF r.tag = "Err" THEN Failed(acc)
                    ELSE CopyOld(ino, st, hashmap, Tail(order),
                                 Acc(acc.buf \o r.val,
                                     MapPut(acc.map, key,
                                            SeekPos(StreamPosition(acc.buf), seek_pos.len))))

\* the value extend writes for a key of the batch
ExtendNewValue(ino, st, key, value) ==
    IF key \in DOMAIN st.seek_pos_map
    THEN LET r == ReadExact(ino, st.database, st.seek_pos_map[key].pos,
                            st.seek_pos_map[key].len)
         IN IF r.tag = "Err" THEN Err
            ELSE LET d == Deserialize(r.val)
                 IN IF d.tag = "Err" THEN Err
                    ELSE Some(ExtendValue(d.val, value))
    ELSE Some(value)

\* an insert that appends to the value the store holds, as extend does
InsertValueAppends(ino, st, key, value) == ExtendNewValue(ino, st, key, value)

\* the value insert writes for a key of the batch
InsertValue(ino, st, key, value) == Some(value)

NewValue(op, ino, st, key, value) ==
    IF op = "insert" THEN InsertValue(ino, st, key, value)
    ELSE ExtendNewValue(ino, st, key, value)

\* "Insert the new values"; order is the iteration order of the batch
RECURSIVE WriteNew(_, _, _, _, _, _)
WriteNew(op, ino, st, hashmap, order, acc) ==
    IF acc.tag = "Err" \/ Len(order) = 0 THEN acc
    ELSE LET key == order[1]
             v == NewValue(op, ino, st, key, hashmap[key])
         IN IF v.tag = "Err" THEN Failed(acc)
            ELSE LET value == Serialize(v.val)
                 IN WriteNew(op, ino, st, hashmap, Tail(order),
                             Acc(acc.buf \o value,
                                 MapPut(acc.map, key,
                                        SeekPos(StreamPosition(acc.buf), Len(value)))))

Rebuild(op, ino, st, hashmap, oldOrder, newOrder) ==
    WriteNew(op, ino, st, hashmap, newOrder,
             CopyOld(ino, st, hashmap, oldOrder, Acc(<<>>, EmptyMap)))

temp_db_path == WithExtension(db_path, TEMP_FILE_SUFFIX)

(***************************************************************************)
(* KVDatabase::insert and KVDatabase::extend as steps on a world, one per  *)
(* file-system step of the code.                                           *)
(***************************************************************************)
World == [files |-> files, inodes |-> inodes, store |-> store, pc |-> pc,
          cur |-> cur, ret |-> "none"]

\* return from the operation
Return(w, result) == Collect([w EXCEPT !.pc = "idle", !.cur = NoOp, !.ret = result])

\* the early return, then File::create(&temp_db_path)
StepBegin(w, op, hashmap) ==
    IF IsEmpty(hashmap) THEN [w EXCEPT !.ret = "ok"]
    ELSE LET w1 == FsCreate(w, temp_db_path)
         IN [w1 EXCEPT !.pc = "write",
                       !.cur = [op |-> op, batch |-> hashmap, writer |-> temp_db_path,
                                new_seek_pos_map |-> EmptyMap,
                                pre |-> [k \in Keys |-> GetFrom(w.inodes, w.store, k)]]]

\* the two loops and temp_db_writer.flush(); on an error the writer is
\* dropped, which writes out what it holds
StepWriteTemp(w, oldOrder, newOrder) ==
    LET r == Rebuild(w.cur.op, w.inodes, w.store, w.cur.batch, oldOrder, newOrder)
        w1 == [w EXCEPT !.inodes[w.cur.writer] = r.buf]
    IN IF r.tag = "Err" THEN Return(w1, "err")
       ELSE [w1 EXCEPT !.pc = "truncate", !.cur.new_seek_pos_map = r.map]

\* File::create(&self.seek_path)
StepTruncManifest(w) == [FsCreate(w, seek_path) EXCEPT !.pc = "manifest"]

\* file.write_all(&serialized)
StepWriteManifest(w) ==
    [w EXCEPT !.inodes[seek_path] = SerializeMap(w.cur.new_seek_pos_map),
              !.pc = "remove"]

\* remove_file(&self.db_path)
StepRemoveOld(w) ==
    IF ~w.files[db_path] THEN Return(w, "err")
    ELSE [FsRemove(w, db_path) EXCEPT !.pc = "rename"]

\* rename(temp_db_path, &self.db_path)
StepRename(w) ==
    IF ~w.files[temp_db_path] THEN Return(w, "err")
    ELSE [FsRename(w, temp_db_path, db_path) EXCEPT !.pc = "reopen"]

\* self.database = File::open(&self.db_path); self.seek_pos_map = new map
StepReopen(w) ==
    IF ~w.files[db_path] THEN Return(w, "err")
    ELSE Return([w EXCEPT !.store = [open |-> TRUE,
                                     seek_pos_map |-> w.cur.new_seek_pos_map,
                                     database |-> [ino |-> db_path, readable |-> TRUE]]],
                "ok")

StepAt(w, oldOrder, newOrder) ==
    CASE w.pc = "write" -> StepWriteTemp(w, oldOrder, newOrder)
      [] w.pc = "truncate" -> StepTruncManifest(w)
      [] w.pc = "manifest" -> StepWriteManifest(w)
      [] w.pc = "remove" -> StepRemoveOld(w)
      [] w.pc = "rename" -> StepRename(w)
      [] w.pc = "reopen" -> StepReopen(w)

\* the operation from its first step to its return
RECURSIVE RunOp(_, _, _)
RunOp(w, oldOrder, newOrder) ==
    IF w.pc = "idle" THEN w ELSE RunOp(StepAt(w, oldOrder, newOrder), oldOrder, newOrder)

Entry(op, hashmap, result) == [op |-> op, batch |-> hashmap, result |-> result]

\* the state after a step that took the world to w
Apply(w, op, hashmap) ==
    /\ files' = w.files
    /\ inodes' = w.inodes
    /\ store' = w.store
    /\ pc' = w.pc
    /\ cur' = w.cur
    /\ hist' = IF w.ret = "none" THEN hist ELSE Append(hist, Entry(op, hashmap, w.ret))
    /\ UNCHANGED searchvars
    /\ UNCHANGED buildvars

CanCall ==
    /\ pc = "idle"
    /\ store.open
    /\ ~iter.active
    /\ Len(hist) < MaxOps

Call(op, hashmap) ==
    /\ CanCall
    /\ \E oldOrder \in Perms(DOMAIN store.seek_pos_map), newOrder \in Perms(DOMAIN hashmap) :
         Apply(RunOp(StepBegin(World, op, hashmap), oldOrder, newOrder), op, hashmap)
    /\ UNCHANGED <<crashed, opened, iter>>

Insert == \E hashmap \in Batches : Call("insert", hashmap)

Extend == \E hashmap \in Batches : Call("extend", hashmap)

(***************************************************************************)
(* KVDatabase::new, KVDatabase::from, drop                                 *)
(***************************************************************************)
\* a new that leaves a manifest file it finds as it is
StepNewKeepsManifest(w) ==
    LET w1 == IF w.files[seek_path] THEN [w EXCEPT !.store = NoStore]
              ELSE FsCreate([w EXCEPT !.store = NoStore], seek_path)
        w2 == IF w.files[seek_path] THEN w1
              ELSE [w1 EXCEPT !.inodes[seek_path] = SerializeMap(EmptyMap)]
        w3 == FsCreate(w2, db_path)
    IN Collect([w3 EXCEPT !.store = [open |-> TRUE, seek_pos_map |-> EmptyMap,
                                     database |-> [ino |-> db_path, readable |-> FALSE]]])

StepNew(w) ==
    LET w1 == FsCreate([w EXCEPT !.store = NoStore], seek_path)
        w2 == [w1 EXCEPT !.inodes[seek_path] = SerializeMap(EmptyMap)]
        w3 == FsCreate(w2, db_path)
    IN Collect([w3 EXCEPT !.store = [open |-> TRUE, seek_pos_map |-> EmptyMap,
                                     database |-> [ino |-> db_path, readable |-> FALSE]]])

New ==
    /\ pc = "idle"
    /\ ~iter.active
    /\ LET w == StepNew(World)
       IN /\ files' = w.files
          /\ inodes' = w.inodes
          /\ store' = w.store
    /\ hist' = <<>>
    /\ crashed' = NoCrash
    /\ opened' = "new"
    /\ UNCHANGED <<pc, cur, iter>>
    /\ UNCHANGED searchvars
    /\ UNCHANGED buildvars

From ==
    /\ pc = "idle"
    /\ ~store.open
    /\ LET m == IF ~files[seek_path] THEN Err ELSE DeserializeMap(inodes[seek_path])
       IN IF m.tag = "Err" \/ ~files[db_path]
          THEN /\ opened' = "err"
               /\ UNCHANGED store
          ELSE /\ opened' = "ok"
               /\ store' = [open |-> TRUE, seek_pos_map |-> m.val,
                            database |-> [ino |-> db_path, readable |-> TRUE]]
    /\ UNCHANGED <<files, inodes, pc, cur, hist, crashed, iter>>
    /\ UNCHANGED searchvars
    /\ UNCHANGED buildvars

Drop ==
    /\ pc = "idle"
    /\ store.open
    /\ ~iter.active
    /\ store' = NoStore
    /\ opened' = "none"
    /\ inodes' = Collect([World EXCEPT !.store = NoStore]).inodes
    /\ UNCHANGED <<files, pc, cur, hist, crashed, iter>>
    /\ UNCHANGED searchvars
    /\ UNCHANGED buildvars

(***************************************************************************)
(* Iteration: IntoIterator for &mut KVDatabase and KVDbIterator::next      *)
(***************************************************************************)
\* IterItem without the seek: every entry is read from the start of the file
IterItemNoSeek(ino, st, key) ==
    LET seek_pos == st.seek_pos_map[key]
        r == ReadExact(ino, st.database, 0, seek_pos.len)
    IN IF r.tag = "Err" THEN [key |-> key, res |-> Err]
       ELSE LET d == Deserialize(r.val)
            IN IF d.tag = "Err" THEN [key |-> key, res |-> Err]
               ELSE [key |-> key, res |-> Some(d.val)]

IterItem(ino, st, key) ==
    LET seek_pos == st.seek_pos_map[key]
        r == ReadExact(ino, st.database, seek_pos.pos, seek_pos.len)
    IN IF r.tag = "Err" THEN [key |-> key, res |-> Err]
       ELSE LET d == Deserialize(r.val)
            IN IF d.tag = "Err" THEN [key |-> key, res |-> Err]
               ELSE [key |-> key, res |-> Some(d.val)]

IntoIter ==
    /\ pc = "idle"
    /\ store.open
    /\ ~iter.active
    /\ \E order \in Perms(DOMAIN store.seek_pos_map) :
         iter' = [active |-> TRUE, rest |-> order, out |-> <<>>, done |-> FALSE]
    /\ UNCHANGED <<files, inodes, store, pc, cur, hist, crashed, opened>>
    /\ UNCHANGED searchvars
    /\ UNCHANGED buildvars

\* an iterator that ends at the first entry it fails to read
SeekPosIterFused(rest, item) == IF item.res = Err THEN <<>> ELSE Tail(rest)

\* self.seek_pos_iter after next() has mapped one entry to its item: the
\* closure's error is the item, the iterator of the manifest has moved on
SeekPosIterNext(rest, item) == Tail(rest)

IterNext ==
    /\ iter.active
    /\ ~iter.done
    /\ IF Len(iter.rest) = 0
       THEN iter' = [iter EXCEPT !.done = TRUE]
       ELSE LET item == IterItem(inodes, store, iter.rest[1])
            IN iter' = [iter EXCEPT !.rest = SeekPosIterNext(@, item),
                                    !.out = Append(@, item)]
    /\ UNCHANGED <<files, inodes, store, pc, cur, hist, crashed, opened>>
    /\ UNCHANGED searchvars
    /\ UNCHANGED buildvars

IterDrop ==
    /\ iter.active
    /\ iter' = NoIter
    /\ UNCHANGED <<files, inodes, store, pc, cur, hist, crashed, opened>>
    /\ UNCHANGED searchvars
    /\ UNCHANGED buildvars

(***************************************************************************)
(* The store's specification: every call runs to its return.               *)
(***************************************************************************)
Init ==
    /\ files = [p \in Paths |-> FALSE]
    /\ inodes = [s \in Slots |-> <<>>]
    /\ store = NoStore
    /\ pc = "idle"
    /\ cur = NoOp
    /\ hist = <<>>
    /\ crashed = NoCrash
    /\ opened = "none"
    /\ iter = NoIter
    /\ inverted_index_db = NoIndex
    /\ query = <<>>
    /\ results = NoResults
    /\ build = NoBuild

Next ==
    \/ New
    \/ From
    \/ Drop
    \/ Insert
    \/ Extend
    \/ IntoIter
    \/ IterNext
    \/ IterDrop

Spec == Init /\ [][Next]_vars

\* the store under its calls alone, with no iteration in between
NextOps ==
    \/ New
    \/ From
    \/ Drop
    \/ Insert
    \/ Extend

SpecOps == Init /\ [][NextOps]_vars

(***************************************************************************)
(* The store with a process that may stop between two file-system steps of *)
(* insert and extend: the same steps, one action each.                     *)
(***************************************************************************)
BeginCall(op, hashmap) ==
    /\ CanCall
    /\ Apply(StepBegin(World, op, hashmap), op, hashmap)
    /\ crashed' = IF IsEmpty(hashmap) THEN crashed ELSE NoCrash
    /\ UNCHANGED <<opened, iter>>

InsertBegin == \E hashmap \in Batches : BeginCall("insert", hashmap)

ExtendBegin == \E hashmap \in Batches : BeginCall("extend", hashmap)

WriteTemp ==
    /\ pc = "write"
    /\ \E oldOrder \in Perms(DOMAIN store.seek_pos_map),
          newOrder \in Perms(DOMAIN cur.batch) :
         Apply(StepWriteTemp(World, oldOrder, newOrder), cur.op, cur.batch)
    /\ UNCHANGED <<crashed, opened, iter>>

TruncManifest ==
    /\ pc = "truncate"
    /\ Apply(StepTruncManifest(World), cur.op, cur.batch)
    /\ UNCHANGED <<crashed, opened, iter>>

WriteManifest ==
    /\ pc = "manifest"
    /\ Apply(StepWriteManifest(World), cur.op, cur.batch)
    /\ UNCHANGED <<crashed, opened, iter>>

RemoveOld ==
    /\ pc = "remove"
    /\ Apply(StepRemoveOld(World), cur.op, cur.batch)
    /\ UNCHANGED <<crashed, opened, iter>>

Rename ==
    /\ pc = "rename"
    /\ Apply(StepRename(World), cur.op, cur.batch)
    /\ UNCHANGED <<crashed, opened, iter>>

Reopen ==
    /\ pc = "reopen"
    /\ Apply(StepReopen(World), cur.op, cur.batch)
    /\ UNCHANGED <<crashed, opened, iter>>

\* the process stops: its handles are gone, the files stay as they are
Crash ==
    /\ pc # "idle"
    /\ crashed' = [at |-> pc, op |-> cur.op, batch |-> cur.batch, pre |-> cur.pre]
    /\ Apply(Return([World EXCEPT !.store = NoStore], "crash"), cur.op, cur.batch)
    /\ opened' = "none"
    /\ UNCHANGED iter

NextCrash ==
    \/ New
    \/ From
    \/ Drop
    \/ InsertBegin
    \/ ExtendBegin
    \/ WriteTemp
    \/ TruncManifest
    \/ WriteManifest
    \/ RemoveOld
    \/ Rename
    \/ Reopen
    \/ Crash

SpecCrash == Init /\ [][NextCrash]_vars

(***************************************************************************)
(* The store with a file system that may refuse a step of insert and       *)
(* extend: the same steps, one action each, and the return of the error.   *)
(***************************************************************************)
\* the file-system call of the step returns an error before it has changed
\* a file, and ? returns it from the operation: the writer is dropped, the
\* handle and the manifest in memory stay as they are
StepErr ==
    /\ pc # "idle"
    /\ Apply(Return(World, "err"), cur.op, cur.batch)
    /\ UNCHANGED <<crashed, opened, iter>>

NextErr ==
    \/ New
    \/ From
    \/ Drop
    \/ InsertBegin
    \/ ExtendBegin
    \/ WriteTemp
    \/ TruncManifest
    \/ WriteManifest
    \/ RemoveOld
    \/ Rename
    \/ Reopen
    \/ StepErr

SpecErr == Init /\ [][NextErr]_vars

(***************************************************************************)
(* Iteration over a store opened on the files an earlier process left: a   *)
(* new store filled by one insert, then an insert or extend that ran to    *)
(* its return or stopped before one of its file-system steps.              *)
(***************************************************************************)
\* the operation from its first step up to the step named stop
RECURSIVE RunTo(_, _, _, _)
RunTo(w, oldOrder, newOrder, stop) ==
    IF w.pc = "idle" \/ w.pc = stop THEN w
    ELSE RunTo(StepAt(w, oldOrder, newOrder), oldOrder, newOrder, stop)

StopPoints == {"truncate", "manifest", "remove", "rename", "reopen", "idle"}

NoFiles ==
    [files |-> [p \in Paths |-> FALSE], inodes |-> [s \in Slots |-> <<>>],
     store |-> NoStore, pc |-> "idle", cur |-> NoOp, ret |-> "none"]

\* the files left by new, insert(first), and op(second) stopped at stop
Leftover(first, op, second, orders, stop) ==
    LET w1 == StepNew(NoFiles)
        w2 == RunOp(StepBegin(w1, "insert", first), <<>>, orders.first)
        w3 == RunTo(StepBegin(w2, op, second), orders.old, orders.new, stop)
    IN Return([w3 EXCEPT !.store = NoStore], "crash")

InitIter ==
    /\ \E first \in Batches, second \in Batches, op \in {"insert", "extend"},
          stop \in StopPoints :
         \E o1 \in Perms(DOMAIN first), o2 \in Perms(DOMAIN first),
            o3 \in Perms(DOMAIN second) :
            LET w == Leftover(first, op, second,
                              [first |-> o1, old |-> o2, new |-> o3], stop)
            IN /\ files = w.files
               /\ inodes = w.inodes
    /\ store = NoStore
    /\ pc = "idle"
    /\ cur = NoOp
    /\ hist = <<>>
    /\ crashed = NoCrash
    /\ opened = "none"
    /\ iter = NoIter
    /\ inverted_index_db = NoIndex
    /\ query = <<>>
    /\ results = NoResults
    /\ build = NoBuild

NextIter ==
    \/ From
    \/ Drop
    \/ IntoIter
    \/ IterNext
    \/ IterDrop

SpecIter == InitIter /\ [][NextIter]_vars

(***************************************************************************)
(* Tokenizer::tokenize.  A text is a sequence of characters: the letters a *)
(* and s in both cases, the lowercase letter long s (U+017F, whose         *)
(* uppercase is S) and the space.  The queries typed are written with      *)
(* a, s, S, long s and the space.                                          *)
(***************************************************************************)
LONG_S == "long_s"
WordChars == {"a", "A", "s", "S", LONG_S}
Chars == {"a", "s", "S", LONG_S, " "}

\* the longest query, in characters
MaxQueryLen == 3

Texts(n) == UNION {[1..k -> Chars] : k \in 0..n}
Queries == Texts(MaxQueryLen)

\* char::to_lowercase that leaves every character as it is
ToLowercaseNone(c) == c

\* char::to_lowercase
ToLowercase(c) ==
    IF c = "A" THEN "a" ELSE IF c = "S" THEN "s" ELSE c

\* str::to_lowercase
StrToLowercase(w) == [i \in 1..Len(w) |-> ToLowercase(w[i])]

\* a matcher that loses the run still open at the end of the text
RECURSIVE FindIterDropsLast(_, _, _)
FindIterDropsLast(text, i, run) ==
    IF i > Len(text) THEN <<>>
    ELSE IF text[i] \in WordChars
         THEN FindIterDropsLast(text, i + 1, Append(run, text[i]))
    ELSE (IF run = <<>> THEN <<>> ELSE <<run>>)
             \o FindIterDropsLast(text, i + 1, <<>>)

\* the matches of \b\w+\b in text[i..], run being the word characters read
\* since the last non-word character: the maximal runs of word characters
RECURSIVE FindIter(_, _, _)
FindIter(text, i, run) ==
    IF i > Len(text) THEN (IF run = <<>> THEN <<>> ELSE <<run>>)
    ELSE IF text[i] \in WordChars THEN FindIter(text, i + 1, Append(run, text[i]))
    ELSE (IF run = <<>> THEN <<>> ELSE <<run>>) \o FindIter(text, i + 1, <<>>)

\* the English Snowball stemmer on lowercased words of this alphabet: a word
\* of one or two letters is left alone; of the suffix rules only step 1a
\* applies, which leaves a final ss and deletes another final s when the
\* part before it has a vowel that is not the letter next to the s
Vowels == {"a"}

Stem(w) ==
    LET n == Len(w)
    IN IF n <= 2 THEN w
       ELSE IF /\ w[n] = "s"
               /\ w[n - 1] # "s"
               /\ \E i \in 1..(n - 2) : w[i] \in Vowels
            THEN SubSeq(w, 1, n - 1)
       ELSE w

Tokenize(text) ==
    LET found == FindIter(text, 1, <<>>)
    IN [i \in 1..Len(found) |-> Stem(StrToLowercase(found[i]))]

(***************************************************************************)
(* The index a search runs on: DiskInvertedIndex, as what get and get_doc  *)
(* return for every term and every document id.                            *)
(***************************************************************************)
\* f64 scores: the finite ones are integers here, NaN is apart
F64(n) == [nan |-> FALSE, v |-> n]
NaN == [nan |-> TRUE, v |-> 0]

\* f64 addition
FAdd(x, y) == IF x.nan \/ y.nan THEN NaN ELSE F64(x.v + y.v)

\* f64::partial_cmp
PartialCmp(x, y) ==
    IF x.nan \/ y.nan THEN None
    ELSE IF x.v < y.v THEN Some("Less")
    ELSE IF x.v = y.v THEN Some("Equal")
    ELSE Some("Greater")

UnwrapOr(opt, default) == IF opt.tag = "Some" THEN opt.val ELSE default

Ok(v) == [tag |-> "Ok", val |-> v]
DocumentNotFound == [tag |-> "Err", kind |-> "Generic", msg |-> "Document not found"]

TermIndex(doc_id, tf_idf) == [doc_id |-> doc_id, tf_idf |-> tf_idf]
Doc(url) == [url |-> url]
SearchResult(url, score) == [url |-> url, score |-> score]

DocIds == {0, 1}
TfIdfs == {F64(1), F64(2), NaN}
IndexTerms == {<<"s">>, <<"a", "a">>}
Url(doc_id) ==
    IF doc_id = 0 THEN "https://www.ericminassian.com/"
    ELSE "https://www.github.com/eric-minassian"

\* the posting lists of a term: one posting at most per document, in the
\* order of the document ids
PostingLists ==
    {<<>>}
    \cup {<<TermIndex(d, t)>> : d \in DocIds, t \in TfIdfs}
    \cup {<<TermIndex(0, t0), TermIndex(1, t1)>> : t0 \in TfIdfs, t1 \in TfIdfs}

Indexes ==
    {[db |-> db, url_map |-> url_map] :
        db \in UNION {[S -> PostingLists] : S \in SUBSET IndexTerms},
        url_map \in {[d \in S |-> Doc(Url(d))] : S \in {DocIds, {0}}}}

\* DiskInvertedIndex::get, DiskInvertedIndex::get_doc
IndexGet(idx, key) == IF key \in DOMAIN idx.db THEN Some(idx.db[key]) ELSE None

GetDoc(idx, doc_id) ==
    IF doc_id \in DOMAIN idx.url_map THEN Some(idx.url_map[doc_id]) ELSE None

(***************************************************************************)
(* SearchEngine::search                                                    *)
(***************************************************************************)
NoScores == [d \in {} |-> F64(0)]

\* AddScore with the score of the document replaced instead of added to
AddScoreOverwrites(document_ids, document_index) ==
    LET d == document_index.doc_id
    IN [k \in DOMAIN document_ids \cup {d} |->
            IF k = d THEN document_index.tf_idf ELSE document_ids[k]]

\* *document_ids.entry(doc_id).or_insert(0.0) += tf_idf
AddScore(document_ids, document_index) ==
    LET d == document_index.doc_id
        old == IF d \in DOMAIN document_ids THEN document_ids[d] ELSE F64(0)
    IN [k \in DOMAIN document_ids \cup {d} |->
            IF k = d THEN FAdd(old, document_index.tf_idf) ELSE document_ids[k]]

RECURSIVE AddPostings(_, _)
AddPostings(document_ids, document_indexes) ==
    IF document_indexes = <<>> THEN document_ids
    ELSE AddPostings(AddScore(document_ids, Head(document_indexes)),
                     Tail(document_indexes))

\* AddToken with a token that has no entry emptying the scores
AddTokenAbsentClears(idx, document_ids, token) ==
    LET r == IndexGet(idx, token)
    IN IF r.tag = "Some" THEN AddPostings(document_ids, r.val) ELSE NoScores

\* one turn of the loop over the tokens: a token with no entry is passed over
AddToken(idx, document_ids, token) ==
    LET r == IndexGet(idx, token)
    IN IF r.tag = "Some" THEN AddPostings(document_ids, r.val) ELSE document_ids

RECURSIVE Accumulate(_, _, _)
Accumulate(idx, document_ids, stemmed_tokens) ==
    IF stemmed_tokens = <<>> THEN document_ids
    ELSE Accumulate(idx, AddToken(idx, document_ids, Head(stemmed_tokens)),
                    Tail(stemmed_tokens))

\* a collect that takes every entry of the map twice
CollectPairsTwice(document_ids, order) ==
    [i \in 1..(2 * Len(order)) |->
        [doc_id |-> order[((i - 1) % Len(order)) + 1],
         score |-> document_ids[order[((i - 1) % Len(order)) + 1]]]]

\* document_ids.into_iter().collect(): the pairs in the map's iteration order
CollectPairs(document_ids, order) ==
    [i \in 1..Len(order) |-> [doc_id |-> order[i], score |-> document_ids[order[i]]]]

\* the comparison handed to sort_by
Compare(a, b) == UnwrapOr(PartialCmp(b.score, a.score), "Greater")

IsLess(a, b) == Compare(a, b) = "Less"

\* slice::sort_by on a short slice: a stable insertion sort; x goes before
\* the elements at the end of the sorted part that it is less than
RECURSIVE InsertTail(_, _)
InsertTail(sorted, x) ==
    IF sorted = <<>> \/ ~IsLess(x, sorted[Len(sorted)]) THEN Append(sorted, x)
    ELSE Append(InsertTail(SubSeq(sorted, 1, Len(sorted) - 1), x), sorted[Len(sorted)])

RECURSIVE InsertionSort(_, _)
InsertionSort(sorted, rest) ==
    IF rest = <<>> THEN sorted
    ELSE InsertionSort(InsertTail(sorted, Head(rest)), Tail(rest))

SortBy(v) == InsertionSort(<<>>, v)

\* a resolution that leaves out the ids without a document
RECURSIVE ResolvePartial(_, _)
ResolvePartial(idx, v) ==
    IF v = <<>> THEN Ok(<<>>)
    ELSE LET doc_opt == GetDoc(idx, Head(v).doc_id)
             rest == ResolvePartial(idx, Tail(v))
         IN IF doc_opt.tag = "None" THEN rest
            ELSE Ok(<<SearchResult(doc_opt.val.url, Head(v).score)>> \o rest.val)

\* the map over get_doc collected into a Result: the first id without a
\* document fails the query
RECURSIVE Resolve(_, _)
Resolve(idx, v) ==
    IF v = <<>> THEN Ok(<<>>)
    ELSE LET doc_opt == GetDoc(idx, Head(v).doc_id)
             rest == Resolve(idx, Tail(v))
         IN IF doc_opt.tag = "None" THEN DocumentNotFound
            ELSE IF rest.tag = "Err" THEN rest
            ELSE Ok(<<SearchResult(doc_opt.val.url, Head(v).score)>> \o rest.val)

DocumentIds(idx, text) == Accumulate(idx, NoScores, Tokenize(text))

\* what search returns when the score map is iterated in this order
SearchWith(idx, text, order) ==
    Resolve(idx, SortBy(CollectPairs(DocumentIds(idx, text), order)))

\* what search can return
SearchOutcomes(idx, text) ==
    {SearchWith(idx, text, order) : order \in Perms(DOMAIN DocumentIds(idx, text))}

\* the caller has no result list in hand and calls search
Search ==
    /\ results = NoResults
    /\ \E text \in Queries :
         /\ query' = text
         /\ \E order \in Perms(DOMAIN DocumentIds(inverted_index_db, text)) :
              results' = SearchWith(inverted_index_db, text, order)
    /\ UNCHANGED inverted_index_db
    /\ UNCHANGED kvvars
    /\ UNCHANGED buildvars

\* the caller is done with the result list and drops it
DropResults ==
    /\ results # NoResults
    /\ query' = <<>>
    /\ results' = NoResults
    /\ UNCHANGED inverted_index_db
    /\ UNCHANGED kvvars
    /\ UNCHANGED buildvars

\* SearchEngine::new over an index opened from its files; no query yet
InitSearch ==
    /\ files = [p \in Paths |-> FALSE]
    /\ inodes = [s \in Slots |-> <<>>]
    /\ store = NoStore
    /\ pc = "idle"
    /\ cur = NoOp
    /\ hist = <<>>
    /\ crashed = NoCrash
    /\ opened = "none"
    /\ iter = NoIter
    /\ inverted_index_db \in Indexes
    /\ query = <<>>
    /\ results = NoResults
    /\ build = NoBuild

NextSearch ==
    \/ Search
    \/ DropResults

SpecSearch == InitSearch /\ [][NextSearch]_vars

(***************************************************************************)
(* The interactive loop of main (src/main.rs).  pc is where the process    *)
(* is: in the loop, or ended with the exit code of a main that returned    *)
(* Ok(()) or an error.  query is the input last read, trimmed; results is  *)
(* what was printed for it.                                                *)
(***************************************************************************)
EXIT == <<"e", "x", "i", "t">>

\* the lines read_line can put in input_buffer: a short query or the word
\* exit, with or without a space before it, and the line feed
Lines ==
    {typed \o <<"\n">> : typed \in Texts(MaxQueryLen - 1) \cup {EXIT, <<" ">> \o EXIT}}

\* str::trim
RECURSIVE StrTrim(_)
StrTrim(text) ==
    IF text = <<>> THEN text
    ELSE IF Head(text) \in {" ", "\n"} THEN StrTrim(Tail(text))
    ELSE IF text[Len(text)] \in {" ", "\n"} THEN StrTrim(SubSeq(text, 1, Len(text) - 1))
    ELSE text

\* one turn of the loop: the prompt, read_line, the break on exit, the two
\* calls of search with ?, the printed results, input_buffer.clear()
ReplTurn ==
    /\ pc = "loop"
    /\ \E line \in Lines :
         LET input == StrTrim(line)
         IN /\ query' = input
            /\ IF input = EXIT
               THEN /\ pc' = "exit_success"
                    /\ UNCHANGED results
               ELSE \E search_results \in SearchOutcomes(inverted_index_db, input),
                       top \in SearchOutcomes(inverted_index_db, input) :
                       IF search_results.tag = "Err"
                       THEN /\ pc' = "exit_failure"
                            /\ results' = search_results
                       ELSE IF top.tag = "Err"
                       THEN /\ pc' = "exit_failure"
                            /\ results' = top
                       ELSE /\ pc' = "loop"
                            /\ results' = top
    /\ UNCHANGED inverted_index_db
    /\ UNCHANGED <<files, inodes, store, cur, hist, crashed, opened, iter>>
    /\ UNCHANGED buildvars

\* main after SearchEngine::new(db), before the first prompt
InitRepl ==
    /\ files = [p \in Paths |-> FALSE]
    /\ inodes = [s \in Slots |-> <<>>]
    /\ store = NoStore
    /\ pc = "loop"
    /\ cur = NoOp
    /\ hist = <<>>
    /\ crashed = NoCrash
    /\ opened = "none"
    /\ iter = NoIter
    /\ inverted_index_db \in Indexes
    /\ query = <<>>
    /\ results = NoResults
    /\ build = NoBuild

NextRepl == ReplTurn

SpecRepl == InitRepl /\ [][NextRepl]_vars

(***************************************************************************)
(* The index builder (src/inverted_index/disk_inverted_index.rs) and the   *)
(* store it builds on (src/kv_database/disk_hash_map.rs).  Here a file is  *)
(* not a sequence of cells: a data file is the map it encodes together     *)
(* with the number of the rebuild that laid it out, a manifest file is the *)
(* set of keys it gives ranges for together with the number of the layout  *)
(* the ranges belong to.  A range read from a data file of another layout  *)
(* is Garbage.  The disk is [names, inodes, gen]: the inode each path      *)
(* names (0 for none), the content of every inode made so far, and the     *)
(* number of the last layout.                                              *)
(***************************************************************************)
EmptyFile == [kind |-> "empty", gen |-> 0, map |-> <<>>]
DataFile(gen, map) == [kind |-> "db", gen |-> gen, map |-> map]
SeekFile(seek_pos_map) ==
    [kind |-> "seek", gen |-> seek_pos_map.gen,
     map |-> [k \in seek_pos_map.keys |-> "SeekPos"]]

\* SeekPosMap::new()
NewSeekPosMap == [gen |-> 0, keys |-> {}]

Garbage == [tag |-> "Garbage"]

Exists(d, path) == d.names[path] # 0

\* File::create: a new file, or the file at the path cut to length zero
DiskCreate(d, path) ==
    IF Exists(d, path)
    THEN [d EXCEPT !.inodes[d.names[path]] = EmptyFile]
    ELSE [d EXCEPT !.inodes = Append(@, EmptyFile), !.names[path] = Len(d.inodes) + 1]

\* write_all and flush of the whole content through a handle just created
DiskWrite(d, path, content) == [d EXCEPT !.inodes[d.names[path]] = content]

DiskRemove(d, path) == [d EXCEPT !.names[path] = 0]

DiskRename(d, from, to) == [d EXCEPT !.names[to] = d.names[from], !.names[from] = 0]

Handle(path, seek_pos_map, ino, readable) ==
    [db_path |-> path, seek_path |-> WithExtension(path, "seek"),
     seek_pos_map |-> seek_pos_map, database |-> ino, readable |-> readable]

KvOk(d, db) == [tag |-> "Ok", disk |-> d, db |-> db]
KvErr(d, db) == [tag |-> "Err", disk |-> d, db |-> db]

\* KVDatabase::new(db_path) of disk_hash_map: the handle on the data file is
\* made by File::create and cannot be read from
KvNew(d, path) ==
    LET seek == WithExtension(path, "seek")
        d1 == DiskWrite(DiskCreate(d, seek), seek, SeekFile(NewSeekPosMap))
        d2 == DiskCreate(d1, path)
    IN KvOk(d2, Handle(path, NewSeekPosMap, d2.names[path], FALSE))

\* KVDatabase::from(db_path) of disk_hash_map
KvFrom(d, path) ==
    LET seek == WithExtension(path, "seek")
    IN IF ~Exists(d, seek) THEN KvErr(d, <<>>)
       ELSE LET m == d.inodes[d.names[seek]]
            IN IF m.kind # "seek" THEN KvErr(d, <<>>)
               ELSE IF ~Exists(d, path) THEN KvErr(d, <<>>)
               ELSE KvOk(d, Handle(path, [gen |-> m.gen, keys |-> DOMAIN m.map],
                                   d.names[path], TRUE))

\* seek to the key's range and read_exact, then deserialize
KvRead(d, db, key) ==
    LET file == d.inodes[db.database]
    IN IF ~db.readable THEN Err
       ELSE IF file.kind # "db" \/ file.gen # db.seek_pos_map.gen
               \/ key \notin DOMAIN file.map THEN Garbage
       ELSE Some(file.map[key])

\* KVDatabase::get
KvGet(d, db, key) ==
    IF key \in db.seek_pos_map.keys THEN KvRead(d, db, key) ELSE None

\* an extend that replaces the value the store holds
KvExtendValueReplaces(old_value, value) == value

\* the value extend writes for a key of the batch that the store holds
KvExtendValue(old_value, value) == old_value \o value

\* let temp_db_path = self.db_path.with_extension(TEMP_FILE_SUFFIX)
TempDbPath(path) == WithExtension(path, TEMP_FILE_SUFFIX)

\* KVDatabase::insert (op = "insert") and KVDatabase::extend (op = "extend"):
\* the early return, the temp file, the copy of the old values and the write
\* of the new ones, the manifest file, remove_file, rename, the reopen.  A
\* range that reads as Garbage is not followed further: the call is taken to
\* fail there, as it does on a failed read.
KvWrite(d, db, hashmap, op) ==
    IF DOMAIN hashmap = {} THEN KvOk(d, db)
    ELSE LET temp_path == TempDbPath(db.db_path)
             d1 == DiskCreate(d, temp_path)
             old == db.seek_pos_map.keys
             reads == IF op = "insert" THEN old \ DOMAIN hashmap ELSE old
         IN IF \E k \in reads : KvRead(d1, db, k).tag # "Some" THEN KvErr(d1, db)
            ELSE LET new_map ==
                         [k \in old \cup DOMAIN hashmap |->
                            IF k \notin DOMAIN hashmap THEN KvRead(d1, db, k).val
                            ELSE IF op = "extend" /\ k \in old
                                 THEN KvExtendValue(KvRead(d1, db, k).val, hashmap[k])
                            ELSE hashmap[k]]
                     new_seek_pos_map == [gen |-> d.gen + 1, keys |-> DOMAIN new_map]
                     d2 == [DiskWrite(d1, temp_path, DataFile(d.gen + 1, new_map))
                                EXCEPT !.gen = d.gen + 1]
                     d3 == DiskWrite(DiskCreate(d2, db.seek_path), db.seek_path,
                                    SeekFile(new_seek_pos_map))
                     removed == DiskRemove(d3, db.db_path)
                 IN IF ~Exists(d3, db.db_path) THEN KvErr(d3, db)
                    ELSE IF ~Exists(removed, temp_path) THEN KvErr(removed, db)
                    ELSE LET d4 == DiskRename(removed, temp_path, db.db_path)
                         IN KvOk(d4, Handle(db.db_path, new_seek_pos_map,
                                            d4.names[db.db_path], TRUE))

(***************************************************************************)
(* The crawl and the text of a document.  A crawled page is a sequence of  *)
(* word occurrences, each inside one element: p (plain body text), b,      *)
(* title or h1.  The directory walk yields directories, entries it cannot  *)
(* read, and files; a file may fail to open or to parse as a CrawlFile.    *)
(***************************************************************************)
\* entries the directory walk yields
MaxEntries == 3
\* documents between two flushes of the build (10_000 in the code) and index
\* entries between two flushes of the scoring
MAX_ITERATIONS == 2

BOLD_WEIGHT == 3
HEADER_WEIGHT == 5
TITLE_WEIGHT == 10

Occ(element, word) == [element |-> element, word |-> word]

Pages ==
    LET s == <<"s">>
        S == <<"S">>
        aa == <<"a", "a">>
        aas == <<"a", "a", "s">>
    IN {<<Occ("p", s)>>,
        <<Occ("p", aa), Occ("p", aa), Occ("p", aa)>>,
        <<Occ("title", aa)>>,
        <<Occ("title", s), Occ("p", s)>>,
        <<Occ("p", S)>>,
        <<Occ("title", aas), Occ("p", aas)>>,
        <<Occ("b", s), Occ("h1", S)>>}

PageUrl(i) == <<"https://www.ics.uci.edu/", i>>

CrawlFile(url, content) == [url |-> url, content |-> content]

\* what the walk can yield, the files without their urls
Yields ==
    {[kind |-> "error"], [kind |-> "dir"],
     [kind |-> "file", open |-> Err, json |-> Err],
     [kind |-> "file", open |-> Ok("reader"), json |-> Err]}
    \cup {[kind |-> "file", open |-> Ok("reader"), json |-> Ok(c)] : c \in Pages}

\* the i-th entry of the walk
DirEntry(y, i) ==
    IF y.kind = "file" /\ y.json.tag = "Ok"
    THEN [y EXCEPT !.json = Ok(CrawlFile(PageUrl(i), y.json.val))]
    ELSE y

Crawls ==
    UNION {{[i \in 1..n |-> DirEntry(ys[i], i)] : ys \in [1..n -> Yields]} : n \in 0..MaxEntries}

\* the words of more than one letter that a vocabulary may hold whole
LongWords == {<<"a", "a">>, <<"a", "a", "s">>}

\* the vocabularies: every such word whole, or none
Vocabularies == {{}, LongWords}

\* Tokenizer::encode(..).get_tokens() of bert-base-cased on one word: the
\* word itself when it is one letter or in the vocabulary, and else the
\* pieces of its letters, the later ones marked as continuations.  Case is
\* kept and nothing is stemmed.
WordPieces(word, vocabulary) ==
    IF Len(word) = 1 \/ word \in vocabulary THEN <<word>>
    ELSE [i \in 1..Len(word) |-> IF i = 1 THEN <<word[1]>> ELSE <<"##", word[i]>>]

RECURSIVE Encode(_, _)
Encode(words, vocabulary) ==
    IF words = <<>> THEN <<>>
    ELSE WordPieces(Head(words), vocabulary) \o Encode(Tail(words), vocabulary)

\* document.root_element().text(): every word of the page, the title's too
AllText(content) == [i \in 1..Len(content) |-> content[i].word]

\* the text of the elements a selector matches, split at white space, each
\* word stemmed as it is written
RECURSIVE SelectWords(_, _)
SelectWords(content, elements) ==
    IF content = <<>> THEN <<>>
    ELSE (IF Head(content).element \in elements THEN <<Stem(Head(content).word)>> ELSE <<>>)
            \o SelectWords(Tail(content), elements)

\* word_count.entry(token).or_insert(0) += n, for every token in turn
RECURSIVE AddCounts(_, _, _)
AddCounts(word_count, tokens, n) ==
    IF tokens = <<>> THEN word_count
    ELSE LET token == Head(tokens)
             count == IF token \in DOMAIN word_count THEN word_count[token] ELSE 0
         IN AddCounts([t \in DOMAIN word_count \cup {token} |->
                          IF t = token THEN count + n ELSE word_count[t]],
                      Tail(tokens), n)

\* the word_count of a page: one for every token of the whole text, and the
\* weight less one for every word in b, title and h1..h5
WordCount(content, vocabulary) ==
    LET body == AddCounts(<<>>, Encode(AllText(content), vocabulary), 1)
        bolded == AddCounts(body, SelectWords(content, {"b", "strong"}), BOLD_WEIGHT - 1)
        title == AddCounts(bolded, SelectWords(content, {"title"}), TITLE_WEIGHT - 1)
    IN AddCounts(title, SelectWords(content, {"h1", "h2", "h3", "h4", "h5"}), HEADER_WEIGHT - 1)

TempTermIndex(doc_id, tf) == [doc_id |-> doc_id, tf |-> tf]

\* inverted_index.entry(word).or_default().push(..) for every word of the page
PushAll(inverted_index, doc_id, word_count) ==
    [t \in DOMAIN inverted_index \cup DOMAIN word_count |->
        (IF t \in DOMAIN inverted_index THEN inverted_index[t] ELSE <<>>)
        \o (IF t \in DOMAIN word_count THEN <<TempTermIndex(doc_id, word_count[t])>> ELSE <<>>)]

\* an insert that drops what the doc_map held
DocMapInsertAlone(doc_map, doc_id, url) == [d \in {doc_id} |-> Doc(url)]

\* doc_map.insert(doc_id, Doc::new(url))
DocMapInsert(doc_map, doc_id, url) ==
    [d \in DOMAIN doc_map \cup {doc_id} |-> IF d = doc_id THEN Doc(url) ELSE doc_map[d]]

\* log10 of 1..16 in thousandths
Log10 == <<0, 301, 477, 602, 699, 778, 845, 903, 954, 1000, 1041, 1079, 1114, 1146, 1176, 1204>>

\* a score that divides df by n
CalculateTfIdfInverted(tf, df, n) == F64((1000 + Log10[tf]) * (Log10[df] - Log10[n]))

\* (1.0 + tf.log10()) * (n / df).log10(), in millionths
CalculateTfIdf(tf, df, n) == F64((1000 + Log10[tf]) * (Log10[n] - Log10[df]))

\* the scored posting list of a term
NewData(value, num_docs) ==
    [j \in 1..Len(value) |->
        TermIndex(value[j].doc_id, CalculateTfIdf(value[j].tf, Len(value), num_docs))]

(***************************************************************************)
(* DiskInvertedIndex::new: create_index, calculate_scores and the open of  *)
(* the two stores.  build holds the run: the crawl and the vocabulary it   *)
(* reads, the disk it writes, and its locals; one action is the start, one *)
(* turn of a loop, or the code after a loop.                               *)
(***************************************************************************)
IoError == [tag |-> "Err", kind |-> "IO"]
ParseError == [tag |-> "Err", kind |-> "Generic", msg |-> "Failed to parse crawl file"]

Fail(error) == [build EXCEPT !.pc = "failed", !.result = error]

\* a flush that leaves the flushed postings in the batch
AfterWalkFlushKeeps(inverted_index) == inverted_index

\* inverted_index = InvertedIndex::new()
AfterWalkFlush(inverted_index) == <<>>

\* the flush of the walk: db.extend(inverted_index)?; url_map.insert(doc_map)?
\* on the disk d; the batches are empty afterwards
Flush(d, b) ==
    LET r1 == KvWrite(d, b.db, b.inverted_index, "extend")
        r2 == KvWrite(r1.disk, b.url_map, b.doc_map, "insert")
    IN IF r1.tag = "Err" THEN [tag |-> "Err", disk |-> r1.disk, build |-> b]
       ELSE IF r2.tag = "Err"
            THEN [tag |-> "Err", disk |-> r2.disk, build |-> [b EXCEPT !.db = r1.db]]
       ELSE [tag |-> "Ok", disk |-> r2.disk,
             build |-> [b EXCEPT !.db = r1.db, !.url_map = r2.db,
                                 !.inverted_index = AfterWalkFlush(b.inverted_index),
                                 !.doc_map = <<>>]]

\* a flush when the batch holds MAX_ITERATIONS documents or entries
FlushDueWhenFull(n) == (n + 1) % MAX_ITERATIONS = 0

\* doc_id % 10_000 == 0 and i % 10_000 == 0
FlushDue(n) == n % MAX_ITERATIONS = 0

\* enumerate before the filters: every entry of the walk takes a number
NextDocIdCountsSkipped(doc_id, entry) == doc_id + 1

\* enumerate after the filters: only the files take a number
NextDocId(doc_id, entry) == IF entry.kind = "file" THEN doc_id + 1 ELSE doc_id

\* a scoring that keeps the flushed entries in final_map
AfterFlushKeeps(final_map) == final_map

\* final_map = HashMap::new()
AfterFlush(final_map) == <<>>

\* the tokenizer and the stemmer, KVDatabase::new of the two stores, the
\* empty batches
CreateIndex ==
    /\ build.pc = "start"
    /\ LET r1 == KvNew(disk, build.args.db)
           r2 == KvNew(r1.disk, build.args.url_map)
       IN build' = [pc |-> "walk", crawled_data |-> crawled_data, vocab |-> vocab,
                    args |-> build.args,
                    disk |-> r2.disk, entry |-> 1, doc_id |-> 0, num_docs |-> 0,
                    inverted_index |-> <<>>, doc_map |-> <<>>,
                    db |-> r1.db, url_map |-> r2.db, temp_db |-> <<>>,
                    final_map |-> <<>>, rest |-> {}, i |-> 0,
                    result |-> NoResults, index |-> NoIndex]
    /\ UNCHANGED <<kvvars, searchvars>>

\* a parse that fills the fields it does not find with empty values
FromReaderDefaults(entry) ==
    IF entry.json.tag = "Err" THEN Ok(CrawlFile(<<"">>, <<>>)) ELSE entry.json

\* serde_json::from_reader on the opened file: the CrawlFile, or an error
\* when the text is no JSON or lacks a field
FromReader(entry) == entry.json

\* one entry of the walk: skipped when it is an error or no file; else the
\* file is opened and parsed, its words are counted and pushed, its url is
\* put in doc_map, and the batches are flushed when doc_id % MAX_ITERATIONS
\* is 0
WalkEntry ==
    /\ build.pc = "walk"
    /\ build.entry <= Len(crawled_data)
    /\ LET entry == crawled_data[build.entry]
           b0 == [build EXCEPT !.entry = @ + 1,
                               !.doc_id = NextDocId(build.doc_id, entry)]
       IN IF entry.kind # "file"
          THEN build' = b0
          ELSE IF entry.open.tag = "Err"
               THEN build' = Fail(IoError)
          ELSE IF FromReader(entry).tag = "Err"
               THEN build' = Fail(ParseError)
          ELSE LET data == FromReader(entry).val
                   doc_id == build.doc_id
                   word_count == WordCount(data.content, vocab)
                   b1 == [b0 EXCEPT
                            !.inverted_index = PushAll(@, doc_id, word_count),
                            !.doc_map = DocMapInsert(@, doc_id, data.url)]
               IN IF FlushDue(doc_id)
                  THEN LET r == Flush(disk, b1)
                       IN build' = IF r.tag = "Err"
                                   THEN [r.build EXCEPT !.pc = "failed", !.result = IoError,
                                                        !.disk = r.disk]
                                   ELSE [r.build EXCEPT !.num_docs = @ + 1,
                                                        !.disk = r.disk]
                  ELSE build' = [b1 EXCEPT !.num_docs = @ + 1]
    /\ UNCHANGED <<kvvars, searchvars>>

\* after the walk: the last flush, then the start of calculate_scores, which
\* makes the temp store and starts the iteration of the Phase-1 store
FinishWalk ==
    /\ build.pc = "walk"
    /\ build.entry > Len(crawled_data)
    /\ LET r == Flush(disk, build)
           t == KvNew(r.disk, ScoresTempPath(build.args.db))
       IN IF r.tag = "Err"
          THEN build' = [r.build EXCEPT !.pc = "failed", !.result = IoError,
                                        !.disk = r.disk]
          ELSE build' = [r.build EXCEPT !.pc = "scores", !.disk = t.disk,
                                        !.temp_db = t.db, !.final_map = <<>>,
                                        !.rest = r.build.db.seek_pos_map.keys,
                                        !.i = 0]
    /\ UNCHANGED <<kvvars, searchvars>>

\* one entry of the Phase-1 store, in the order the manifest's HashMap gives:
\* its postings are scored and put in final_map, and final_map is flushed
\* into the temp store when i % MAX_ITERATIONS is 0
ScoreEntry ==
    /\ build.pc = "scores"
    /\ build.rest # {}
    /\ \E key \in build.rest :
         LET item == KvRead(disk, build.db, key)
         IN IF item.tag # "Some"
            THEN build' = Fail(IoError)
            ELSE LET final_map ==
                         [k \in DOMAIN build.final_map \cup {key} |->
                             IF k = key THEN NewData(item.val, build.num_docs)
                             ELSE build.final_map[k]]
                     b1 == [build EXCEPT !.rest = @ \ {key}, !.i = @ + 1]
                 IN IF FlushDue(build.i)
                    THEN LET r == KvWrite(disk, build.temp_db, final_map, "extend")
                         IN build' = IF r.tag = "Err"
                                     THEN [b1 EXCEPT !.pc = "failed", !.result = IoError,
                                                     !.disk = r.disk,
                                                     !.final_map = final_map]
                                     ELSE [b1 EXCEPT !.temp_db = r.db, !.disk = r.disk,
                                                     !.final_map = AfterFlush(final_map)]
                    ELSE build' = [b1 EXCEPT !.final_map = final_map]
    /\ UNCHANGED <<kvvars, searchvars>>

\* after the iteration: the last flush of final_map, the rename of the temp
\* data file over the data file, and the open of the two stores
FinishScores ==
    /\ build.pc = "scores"
    /\ build.rest = {}
    /\ LET r == KvWrite(disk, build.temp_db, build.final_map, "extend")
           d1 == DiskRename(r.disk, ScoresTempPath(build.args.db), build.args.db)
           db == KvFrom(d1, build.args.db)
           url_map == KvFrom(d1, build.args.url_map)
       IN IF r.tag = "Err"
          THEN build' = [Fail(IoError) EXCEPT !.disk = r.disk]
          ELSE build' = IF db.tag = "Err" \/ url_map.tag = "Err"
                        THEN [build EXCEPT !.pc = "failed", !.result = IoError,
                                           !.disk = d1,
                                           !.temp_db = r.db, !.final_map = <<>>]
                        ELSE [build EXCEPT !.pc = "done", !.result = Ok("index"),
                                           !.disk = d1,
                                           !.temp_db = r.db, !.final_map = <<>>,
                                           !.index = [db |-> db.db, url_map |-> url_map.db]]
    /\ UNCHANGED <<kvvars, searchvars>>

InitBuild ==
    /\ files = [p \in Paths |-> FALSE]
    /\ inodes = [s \in Slots |-> <<>>]
    /\ store = NoStore
    /\ pc = "idle"
    /\ cur = NoOp
    /\ hist = <<>>
    /\ crashed = NoCrash
    /\ opened = "none"
    /\ iter = NoIter
    /\ inverted_index_db = NoIndex
    /\ query = <<>>
    /\ results = NoResults
    /\ build \in {[pc |-> "start", crawled_data |-> c, vocab |-> v, disk |-> EmptyDisk,
                     args |-> DefaultArgs] :
                     c \in Crawls, v \in Vocabularies}

NextBuild ==
    \/ CreateIndex
    \/ WalkEntry
    \/ FinishWalk
    \/ ScoreEntry
    \/ FinishScores

SpecBuild == InitBuild /\ [][NextBuild]_vars

(***************************************************************************)
(* The build at other paths than the defaults, and with input and output   *)
(* errors in calculate_scores.  The corpus is made of files that parse.    *)
(***************************************************************************)
PathPages ==
    {<<Occ("p", <<"s">>)>>,
     <<Occ("p", <<"a", "a">>), Occ("p", <<"a", "a">>), Occ("p", <<"a", "a">>)>>,
     <<Occ("title", <<"s">>), Occ("p", <<"s">>)>>}

PathCrawls ==
    {c \in Crawls :
        \A i \in 1..Len(c) :
            /\ c[i].kind = "file"
            /\ c[i].open.tag = "Ok"
            /\ c[i].json.tag = "Ok"
            /\ c[i].json.val.content \in PathPages}

\* temp_db.extend(final_map)? or rename(temp_db_path, db_path)? returns an
\* error of the file system before it has changed a file
ScoresFail ==
    /\ build.pc = "scores"
    /\ build' = Fail(IoError)
    /\ UNCHANGED <<kvvars, searchvars>>

InitPaths ==
    /\ files = [p \in Paths |-> FALSE]
    /\ inodes = [s \in Slots |-> <<>>]
    /\ store = NoStore
    /\ pc = "idle"
    /\ cur = NoOp
    /\ hist = <<>>
    /\ crashed = NoCrash
    /\ opened = "none"
    /\ iter = NoIter
    /\ inverted_index_db = NoIndex
    /\ query = <<>>
    /\ results = NoResults
    /\ build \in {[pc |-> "start", crawled_data |-> c, vocab |-> v, disk |-> EmptyDisk,
                     args |-> a] :
                     c \in PathCrawls, v \in Vocabularies, a \in ArgSets}

NextPaths ==
    \/ CreateIndex
    \/ WalkEntry
    \/ FinishWalk
    \/ ScoreEntry
    \/ FinishScores
    \/ ScoresFail

SpecPaths == InitPaths /\ [][NextPaths]_vars

(***************************************************************************)
(* The legacy store (src/inverted_index_db/mod.rs): InvertedIndexDatabase  *)
(* keeps one line of text per key, key<>doc_id,tf_idf|doc_id,tf_idf, and   *)
(* an index from each key to the position of its line.  A text is a        *)
(* sequence of symbols: the letters of the keys, the delimiters, the line  *)
(* feed, and one symbol for a number as it is printed.  The variables      *)
(* files, inodes, store, hist and opened hold its files, its handle, the   *)
(* batches set so far and whether the index file is the one close wrote.   *)
(***************************************************************************)
LINE_FEED == "LF"
KEY_DELIM == "<>"
DOC_DELIM == "|"
DATA_DELIM == ","

legacy_db_path == "temp.txt"
doc_index_path == "temp.file"
\* format!("{}.tmp", self.db_path)
legacy_temp_path == "temp.txt.tmp"
LegacyPaths == {legacy_db_path, doc_index_path, legacy_temp_path}

Panic == [tag |-> "Panic"]

IndexData(doc_id, tf_idf) == [doc_id |-> doc_id, tf_idf |-> tf_idf]

\* the numbers that are written: doc ids 1 and 2, scores 0.3 and 0.4 (held
\* in tenths)
U64Texts == <<"1", "2">>
ShowU64(n) == U64Texts[n]
ShowF64(x) == IF x = 10 THEN "1" ELSE IF x = 20 THEN "2" ELSE IF x = 3 THEN "0.3" ELSE "0.4"

\* str::parse::<u64>() and str::parse::<f64>() of a piece of text
ParseU64(text) ==
    IF Len(text) = 1 /\ \E n \in 1..Len(U64Texts) : U64Texts[n] = text[1]
    THEN Ok(CHOOSE n \in 1..Len(U64Texts) : U64Texts[n] = text[1])
    ELSE Panic

ParseF64(text) ==
    IF Len(text) = 1 /\ text[1] \in {"1", "2", "0.3", "0.4"}
    THEN Ok(CHOOSE x \in {10, 20, 3, 4} : ShowF64(x) = text[1])
    ELSE Panic

\* the most keys in one batch of a set
MaxBatchKeys == 2

LegacyKeys == {<<"a">>, <<"b">>, <<"c">>, <<"a", KEY_DELIM, "b">>}
LegacyLists == {<<>>, <<IndexData(1, 4)>>, <<IndexData(2, 3)>>}
LegacyBatches ==
    UNION {[S -> LegacyLists] :
              S \in {T \in SUBSET LegacyKeys : Cardinality(T) <= MaxBatchKeys}}

\* str::split: the pieces of the text between the delimiters; the empty
\* text has one empty piece
RECURSIVE SplitFrom(_, _, _)
SplitFrom(text, delim, piece) ==
    IF text = <<>> THEN <<piece>>
    ELSE IF Head(text) = delim THEN <<piece>> \o SplitFrom(Tail(text), delim, <<>>)
    ELSE SplitFrom(Tail(text), delim, Append(piece, Head(text)))

Split(text, delim) == SplitFrom(text, delim, <<>>)

\* [String]::join
RECURSIVE Join(_, _)
Join(pieces, delim) ==
    IF pieces = <<>> THEN <<>>
    ELSE IF Len(pieces) = 1 THEN pieces[1]
    ELSE pieces[1] \o <<delim>> \o Join(Tail(pieces), delim)

\* str::trim
RECURSIVE Trim(_)
Trim(text) ==
    IF text = <<>> THEN text
    ELSE IF Head(text) = LINE_FEED THEN Trim(Tail(text))
    ELSE IF text[Len(text)] = LINE_FEED THEN Trim(SubSeq(text, 1, Len(text) - 1))
    ELSE text

\* seek(SeekFrom::Start(pos)) and read_line: the text from pos up to and
\* with the next line feed, or up to the end of the file
RECURSIVE UpToLineFeed(_)
UpToLineFeed(text) ==
    IF text = <<>> THEN <<>>
    ELSE IF Head(text) = LINE_FEED THEN <<LINE_FEED>>
    ELSE <<Head(text)>> \o UpToLineFeed(Tail(text))

ReadLine(content, pos) == UpToLineFeed(SubSeq(content, pos + 1, Len(content)))

NoDocIndex == [k \in {} |-> 0]

\* doc_index.insert(key, seek_pos)
DocIndexInsert(doc_index, key, seek_pos) ==
    [k \in DOMAIN doc_index \cup {key} |-> IF k = key THEN seek_pos ELSE doc_index[k]]

\* InvertedIndexDatabase::refresh_index: every line of the file from its
\* start, the text before the first key delimiter bound to the line's position
RECURSIVE RefreshFrom(_, _, _)
RefreshFrom(content, seek_pos, doc_index) ==
    LET line == ReadLine(content, seek_pos)
    IN IF line = <<>> THEN doc_index
       ELSE RefreshFrom(content, seek_pos + Len(line),
                        DocIndexInsert(doc_index, Split(line, KEY_DELIM)[1], seek_pos))

RefreshIndex(content) == RefreshFrom(content, 0, NoDocIndex)

\* value.iter().map(|x| format!("{},{}", x.doc_id, x.tf_idf)).collect()
ValueStr(value) ==
    [j \in 1..Len(value) |-> <<ShowU64(value[j].doc_id), DATA_DELIM, ShowF64(value[j].tf_idf)>>]

\* new_value_list = old_value.split("|"); new_value_list.append(&mut value_str)
NewValueList(old_value, value_str) == Split(old_value, DOC_DELIM) \o value_str

\* the line set writes for a key of the batch
SetLine(content, doc_index, key, value) ==
    IF key \in DOMAIN doc_index
    THEN LET parts == Split(ReadLine(content, doc_index[key]), KEY_DELIM)
         IN IF Len(parts) < 2 THEN Panic
            ELSE Ok(key \o <<KEY_DELIM>>
                        \o Join(NewValueList(Trim(parts[2]), ValueStr(value)), DOC_DELIM)
                        \o <<LINE_FEED>>)
    ELSE Ok(key \o <<KEY_DELIM>> \o Join(ValueStr(value), DOC_DELIM) \o <<LINE_FEED>>)

\* the first loop of set, over the batch in its iteration order
RECURSIVE SetNew(_, _, _, _, _)
SetNew(content, doc_index, inverted_index, order, temp) ==
    IF order = <<>> THEN Ok(temp)
    ELSE LET line == SetLine(content, doc_index, Head(order), inverted_index[Head(order)])
         IN IF line.tag = "Panic" THEN Panic
            ELSE SetNew(content, doc_index, inverted_index, Tail(order), temp \o line.val)

\* the second loop of set, over doc_index in its iteration order: read_line
\* appends to line, which is not cleared between two keys
RECURSIVE SetOld(_, _, _, _, _, _)
SetOld(content, doc_index, inverted_index, order, line, temp) ==
    IF order = <<>> THEN temp
    ELSE IF Head(order) \in DOMAIN inverted_index
         THEN SetOld(content, doc_index, inverted_index, Tail(order), line, temp)
    ELSE LET line1 == line \o ReadLine(content, doc_index[Head(order)])
         IN SetOld(content, doc_index, inverted_index, Tail(order), line1, temp \o line1)

\* the content of the temp file that set renames over the database file
SetContent(content, doc_index, inverted_index, newOrder, oldOrder) ==
    LET new == SetNew(content, doc_index, inverted_index, newOrder, <<>>)
    IN IF new.tag = "Panic" THEN Panic
       ELSE Ok(SetOld(content, doc_index, inverted_index, oldOrder, <<>>, new.val))

\* one element of the list get returns
GetData(data) ==
    LET split == Split(data, DATA_DELIM)
        temp_tuple == [i \in 1..Len(split) |-> Trim(split[i])]
    IN IF Len(temp_tuple) < 2 THEN Panic
       ELSE LET doc_id == ParseU64(temp_tuple[1])
                tf_idf == ParseF64(temp_tuple[2])
            IN IF doc_id.tag = "Panic" \/ tf_idf.tag = "Panic" THEN Panic
               ELSE Ok(IndexData(doc_id.val, tf_idf.val))

\* InvertedIndexDatabase::get
IdbGet(content, doc_index, key) ==
    IF key \notin DOMAIN doc_index THEN Ok(<<>>)
    ELSE LET parts == Split(ReadLine(content, doc_index[key]), KEY_DELIM)
         IN IF Len(parts) < 2 THEN Panic
            ELSE LET data_list == Split(parts[2], DOC_DELIM)
                     res == [j \in 1..Len(data_list) |-> GetData(data_list[j])]
                 IN IF \E j \in 1..Len(res) : res[j].tag = "Panic" THEN Panic
                    ELSE Ok([j \in 1..Len(res) |-> res[j].val])

LegacyUnchanged ==
    /\ UNCHANGED <<pc, cur, crashed, iter>>
    /\ UNCHANGED searchvars
    /\ UNCHANGED buildvars

\* InvertedIndexDatabase::new(db_path, doc_index_path, true)
IdbNew ==
    /\ ~store.open
    /\ files' = [files EXCEPT ![legacy_db_path] = TRUE, ![doc_index_path] = FALSE]
    /\ inodes' = [inodes EXCEPT ![legacy_db_path] = <<>>, ![doc_index_path] = <<>>]
    /\ store' = [open |-> TRUE, doc_index |-> NoDocIndex]
    /\ hist' = <<>>
    /\ opened' = "unsaved"
    /\ LegacyUnchanged

\* InvertedIndexDatabase::set
IdbSet ==
    /\ store.open
    /\ Len(hist) < MaxOps
    /\ \E inverted_index \in LegacyBatches :
         /\ hist' = Append(hist, inverted_index)
         /\ IF DOMAIN inverted_index = {}
            THEN UNCHANGED <<files, inodes, store, opened>>
            ELSE \E newOrder \in Perms(DOMAIN inverted_index),
                    oldOrder \in Perms(DOMAIN store.doc_index) :
                   LET temp == SetContent(inodes[legacy_db_path], store.doc_index,
                                          inverted_index, newOrder, oldOrder)
                   IN /\ temp.tag = "Ok"
                      /\ files' = [files EXCEPT ![legacy_temp_path] = FALSE]
                      /\ inodes' = [inodes EXCEPT ![legacy_db_path] = temp.val,
                                                  ![legacy_temp_path] = <<>>]
                      /\ store' = [open |-> TRUE, doc_index |-> RefreshIndex(temp.val)]
                      /\ opened' = "unsaved"
    /\ LegacyUnchanged

\* InvertedIndexDatabase::close: the index written to doc_index_path as JSON
IdbClose ==
    /\ store.open
    /\ opened # "saved"
    /\ files' = [files EXCEPT ![doc_index_path] = TRUE]
    /\ inodes' = [inodes EXCEPT ![doc_index_path] = <<store.doc_index>>]
    /\ opened' = "saved"
    /\ UNCHANGED <<store, hist>>
    /\ LegacyUnchanged

\* drop(db)
IdbDrop ==
    /\ store.open
    /\ store' = NoStore
    /\ opened' = IF opened = "saved" THEN "dropped" ELSE "none"
    /\ UNCHANGED <<files, inodes, hist>>
    /\ LegacyUnchanged

\* InvertedIndexDatabase::new(db_path, doc_index_path, false) on the files
\* a closed database has left
IdbReopen ==
    /\ ~store.open
    /\ opened = "dropped"
    /\ files[doc_index_path]
    /\ files[legacy_db_path]
    /\ store' = [open |-> TRUE, doc_index |-> inodes[doc_index_path][1]]
    /\ opened' = "reopened"
    /\ UNCHANGED <<files, inodes, hist>>
    /\ LegacyUnchanged

InitLegacy ==
    /\ files = [p \in LegacyPaths |-> FALSE]
    /\ inodes = [p \in LegacyPaths |-> <<>>]
    /\ store = NoStore
    /\ pc = "idle"
    /\ cur = NoOp
    /\ hist = <<>>
    /\ crashed = NoCrash
    /\ opened = "none"
    /\ iter = NoIter
    /\ inverted_index_db = NoIndex
    /\ query = <<>>
    /\ results = NoResults
    /\ build = NoBuild

NextLegacy ==
    \/ IdbNew
    \/ IdbSet
    \/ IdbClose
    \/ IdbDrop
    \/ IdbReopen

SpecLegacy == InitLegacy /\ [][NextLegacy]_vars

(***************************************************************************)
(* Claims about the store.                                                 *)
(***************************************************************************)
\* the calls made on the store since new are these n, and all returned ok
Calls(n) ==
    /\ pc = "idle"
    /\ Len(hist) = n
    /\ \A i \in 1..n : hist[i].result = "ok"

\* what get returns for every key
StoreMap == [k \in Keys |-> Get(k)]

\* C1: after a batch M is inserted into a freshly created store, get(k)
\* returns Some(M[k]) for every key k of M.
C1_InsertRoundTrip ==
    (Calls(1) /\ store.open /\ hist[1].op = "insert")
        => \A k \in DOMAIN hist[1].batch : Get(k) = Some(hist[1].batch[k])

C1_Witness ==
    /\ Calls(1) /\ store.open /\ hist[1].op = "insert"
    /\ DOMAIN hist[1].batch = Keys
    /\ hist[1].batch["hello"] # hist[1].batch["world"]

\* M.get(k, [])
GetOr(hashmap, k) == IF k \in DOMAIN hashmap THEN hashmap[k] ELSE <<>>

\* C2 as stated: after extend(M1); extend(M2) on a fresh store, get(k)
\* returns Some(M1.get(k, []) ++ M2.get(k, [])) for any key k.
C2_ExtendRoundTripAnyKey ==
    (Calls(2) /\ store.open /\ hist[1].op = "extend" /\ hist[2].op = "extend")
        => \A k \in Keys :
              Get(k) = Some(GetOr(hist[1].batch, k) \o GetOr(hist[2].batch, k))

\* C2 as amended: after extend(M1); extend(M2) on a fresh store, get(k)
\* returns Some(M1.get(k, []) ++ M2.get(k, [])) for every key k of M1 or M2,
\* and none for a key of neither batch.
C2_ExtendRoundTrip ==
    (Calls(2) /\ store.open /\ hist[1].op = "extend" /\ hist[2].op = "extend")
        => \A k \in Keys :
              Get(k) = IF k \in DOMAIN hist[1].batch \cup DOMAIN hist[2].batch
                       THEN Some(GetOr(hist[1].batch, k) \o GetOr(hist[2].batch, k))
                       ELSE None

C2_Witness ==
    /\ Calls(2) /\ store.open /\ hist[1].op = "extend" /\ hist[2].op = "extend"
    /\ "hello" \in DOMAIN hist[1].batch /\ "hello" \in DOMAIN hist[2].batch
    /\ Get("hello") = Some(<<1, 2>>)
    /\ "world" \in DOMAIN hist[2].batch /\ "world" \notin DOMAIN hist[1].batch

\* C3: after insert(M1); insert(M2) on a fresh store, get(k) is M2[k] for a
\* key of M2 and M1[k] for a key of M1 that is not in M2.
C3_InsertOverwrite ==
    (Calls(2) /\ store.open /\ hist[1].op = "insert" /\ hist[2].op = "insert")
        => \A k \in Keys :
              /\ k \in DOMAIN hist[2].batch => Get(k) = Some(hist[2].batch[k])
              /\ k \in DOMAIN hist[1].batch \ DOMAIN hist[2].batch
                    => Get(k) = Some(hist[1].batch[k])

C3_Witness ==
    /\ Calls(2) /\ store.open /\ hist[1].op = "insert" /\ hist[2].op = "insert"
    /\ DOMAIN hist[1].batch = Keys
    /\ DOMAIN hist[2].batch = {"hello"}
    /\ hist[1].batch["hello"] # hist[2].batch["hello"]
    /\ hist[1].batch["world"] # <<>>

\* C4: after new(p, q); extend(M); drop, the store opened with open(p, q)
\* returns Some(M[k]) for every key k of M and none for every other key.
C4_Persistence ==
    (Calls(1) /\ store.open /\ opened = "ok" /\ hist[1].op = "extend")
        => \A k \in Keys :
              Get(k) = IF k \in DOMAIN hist[1].batch THEN Some(hist[1].batch[k]) ELSE None

C4_Witness ==
    /\ Calls(1) /\ store.open /\ opened = "ok" /\ hist[1].op = "extend"
    /\ DOMAIN hist[1].batch = Keys
    /\ hist[1].batch["hello"] # hist[1].batch["world"]

\* C5: a complete iteration of a store built by extend(M) yields every key of
\* M exactly once, with M[k], and nothing else, and then ends.
C5_IterationComplete ==
    (Calls(1) /\ hist[1].op = "extend" /\ iter.active /\ iter.done)
        => /\ Len(iter.out) = Cardinality(DOMAIN hist[1].batch)
           /\ \A k \in DOMAIN hist[1].batch :
                 \E i \in 1..Len(iter.out) :
                    /\ iter.out[i] = [key |-> k, res |-> Some(hist[1].batch[k])]
                    /\ \A j \in 1..Len(iter.out) : iter.out[j].key = k => j = i

C5_Witness ==
    /\ Calls(1) /\ hist[1].op = "extend" /\ iter.active /\ iter.done
    /\ DOMAIN hist[1].batch = Keys
    /\ hist[1].batch["hello"] # hist[1].batch["world"]
    /\ Len(iter.out) = 2

\* a call with an empty batch returns in this step
EmptyCall == Len(hist') = Len(hist) + 1 /\ DOMAIN hist'[Len(hist')].batch = {}

\* C6: insert({}) and extend({}) return ok and leave the data file, the
\* manifest file and the in-memory manifest as they were.
C6_EmptyBatchNoOp ==
    [][EmptyCall => /\ hist'[Len(hist')].result = "ok"
                    /\ files' = files
                    /\ inodes' = inodes
                    /\ store' = store]_vars

C6_Witness ==
    /\ Calls(2)
    /\ DOMAIN hist[2].batch = {}
    /\ store.open
    /\ DOMAIN store.seek_pos_map = Keys

\* the map an operation is to leave, given the map it found
PostMap(pre, op, hashmap) ==
    [k \in Keys |->
        IF k \notin DOMAIN hashmap THEN pre[k]
        ELSE IF op = "extend" /\ pre[k].tag = "Some" THEN Some(pre[k].val \o hashmap[k])
        ELSE Some(hashmap[k])]

\* the process stopped in the middle of a call, the calls before it returned
\* ok, and an open of the two paths was tried since
OpenedAfterCrash ==
    /\ pc = "idle"
    /\ crashed.at # "none"
    /\ opened \in {"ok", "err"}
    /\ \A i \in 1..(Len(hist) - 1) : hist[i].result = "ok"
    /\ hist[Len(hist)].result = "crash"

\* C7: when the process stops between two file-system steps of insert or
\* extend, the store opened afterwards holds exactly the map from before the
\* operation or exactly the map the operation was to leave.
C7_CrashAtomic ==
    OpenedAfterCrash
        => /\ opened = "ok"
           /\ \/ StoreMap = crashed.pre
              \/ StoreMap = PostMap(crashed.pre, crashed.op, crashed.batch)

(***************************************************************************)
(* Claims about the query engine.                                          *)
(***************************************************************************)
\* a search has returned a list with at least one result
Found == results.tag = "Ok" /\ Len(results.val) >= 1

\* x may stand before y in a list in descending order that has its NaN
\* scores at the end
Geq(x, y) == y.nan \/ (~x.nan /\ x.v >= y.v)

\* C8: the results of a search are in descending order of score: when
\* result i precedes result j, score(i) >= score(j), NaN scores last.
C8_SortedDescending ==
    results.tag = "Ok"
        => \A i, j \in 1..Len(results.val) :
              i < j => Geq(results.val[i].score, results.val[j].score)

\* no token of the text has an entry in the postings store
AllAbsent(idx, text) ==
    LET tokens == Tokenize(text)
    IN \A i \in 1..Len(tokens) : IndexGet(idx, tokens[i]) = None

\* the words of one letter
Words == {<<c>> : c \in WordChars}

\* C9: a query token with no entry in the postings store is passed over
\* without error: the empty query and a query whose tokens are all absent
\* return Ok with no result, and a query with an absent word added in front
\* or at the end returns what the query returns.
C9_AbsentTokensSkipped ==
    results # NoResults
        => /\ AllAbsent(inverted_index_db, query) => results = Ok(<<>>)
           /\ LET outcomes == SearchOutcomes(inverted_index_db, query)
              IN \A w \in Words :
                    AllAbsent(inverted_index_db, w)
                        => /\ SearchOutcomes(inverted_index_db, query \o <<" ">> \o w)
                                = outcomes
                           /\ SearchOutcomes(inverted_index_db, w \o <<" ">> \o query)
                                = outcomes

\* a search of a query with a token that has an entry and a token that has
\* none has returned results
C9_Witness ==
    /\ Found
    /\ \E i, j \in 1..Len(Tokenize(query)) :
         /\ IndexGet(inverted_index_db, Tokenize(query)[i]) = None
         /\ IndexGet(inverted_index_db, Tokenize(query)[j]).tag = "Some"

\* the upper case of a character: long s has S as its upper case
ToUppercase(c) ==
    IF c = "a" THEN "A" ELSE IF c \in {"s", LONG_S} THEN "S" ELSE c

\* the texts that are text with letters of the set changed to upper case
RECURSIVE UpperVariants(_, _)
UpperVariants(text, letters) ==
    IF text = <<>> THEN {<<>>}
    ELSE LET c == Head(text)
             cs == IF c \in letters THEN {c, ToUppercase(c)} ELSE {c}
         IN {<<d>> \o r : d \in cs, r \in UpperVariants(Tail(text), letters)}

\* the texts that text is, with letters of the set changed to upper case
RECURSIVE LowerVariants(_, _)
LowerVariants(text, letters) ==
    IF text = <<>> THEN {<<>>}
    ELSE LET c == Head(text)
             cs == {c} \cup {d \in letters : ToUppercase(d) = c}
         IN {<<d>> \o r : d \in cs, r \in LowerVariants(Tail(text), letters)}

\* the query with letters of the set changed to upper case, and the texts
\* the query is that of
CaseVariants(letters) == UpperVariants(query, letters) \cup LowerVariants(query, letters)

\* C10 as stated: a query and the query with any of its letters changed to
\* upper case return the same results.
C10_CaseInsensitive ==
    results # NoResults
        => LET outcomes == SearchOutcomes(inverted_index_db, query)
           IN \A t \in CaseVariants(WordChars) :
                 SearchOutcomes(inverted_index_db, t) = outcomes

AsciiLetters == {"a", "A", "s", "S"}

\* C10: a query and the query with any of its ASCII letters changed to
\* upper case return the same results: the same URLs with the same scores in
\* the same order, for every order in which the score map is iterated.
C10_AsciiCaseInsensitive ==
    results # NoResults
        => LET outcomes == SearchOutcomes(inverted_index_db, query)
           IN \A t \in CaseVariants(AsciiLetters) :
                 SearchOutcomes(inverted_index_db, t) = outcomes

\* a search of a query with an upper case letter has returned results, and
\* the query in lower case is another text
C10_Witness ==
    /\ Found
    /\ \E i \in 1..Len(query) : query[i] \in {"A", "S"}
    /\ \E t \in LowerVariants(query, AsciiLetters) : t # query

\* new has run on the two paths and no call has returned since the last new
SinceNew ==
    /\ pc = "idle" /\ hist = <<>> /\ crashed = NoCrash
    /\ files[db_path] /\ files[seek_path]

\* C18: new returns an empty store and leaves both files created, the
\* manifest file holding the empty manifest: get of any key returns none, an
\* iteration yields nothing, and an open of the two paths right afterwards
\* succeeds with an empty store; the same holds when the paths held a
\* populated store before new.
C18_NewIsEmpty ==
    /\ (SinceNew /\ opened = "new")
          => /\ store.open
             /\ store.seek_pos_map = EmptyMap
             /\ FileContent(db_path) = Some(<<>>)
             /\ FileContent(seek_path) = Some(SerializeMap(EmptyMap))
             /\ DeserializeMap(inodes[seek_path]).tag # "Err"
             /\ DeserializeMap(inodes[seek_path]).val = EmptyMap
             /\ \A k \in Keys : Get(k) = None
             /\ (iter.active => iter.rest = <<>> /\ iter.out = <<>>)
    /\ (SinceNew /\ opened \in {"ok", "err"})
          => /\ opened = "ok"
             /\ store.open
             /\ store.seek_pos_map = EmptyMap
             /\ \A k \in Keys : Get(k) = None
             /\ (iter.active => iter.rest = <<>> /\ iter.out = <<>>)

\* the store made by new was dropped, the two paths were opened, and an
\* iteration of the opened store has ended without an item
C18_Witness ==
    /\ SinceNew
    /\ opened = "ok"
    /\ store.open
    /\ iter.active /\ iter.done /\ iter.out = <<>>

\* the map the calls hist[1..n] are to leave in a store made by new
RECURSIVE Bound(_)
Bound(n) ==
    IF n = 0 THEN [k \in Keys |-> None]
    ELSE PostMap(Bound(n - 1), hist[n].op, hist[n].batch)

\* C19: after new, open, insert and extend calls that all returned ok, every
\* key of the manifest, in memory and in the manifest file, points to a range
\* (pos, len) with pos + len at most the size of the data file, and the cells
\* of that range decode to the value bound to the key by the calls so far.
C19_ManifestInsideData ==
    (~iter.active /\ store.open /\ crashed = NoCrash /\ Calls(Len(hist)))
        => /\ FileContent(db_path).tag = "Some"
           /\ FileContent(seek_path) = Some(SerializeMap(store.seek_pos_map))
           /\ DeserializeMap(inodes[seek_path]).tag # "Err"
           /\ DeserializeMap(inodes[seek_path]).val = store.seek_pos_map
           /\ \A k \in DOMAIN store.seek_pos_map :
                LET seek_pos == store.seek_pos_map[k]
                    data == inodes[db_path]
                IN /\ seek_pos.pos + seek_pos.len <= Len(data)
                   /\ LET d == Deserialize(SubSeq(data, seek_pos.pos + 1,
                                                  seek_pos.pos + seek_pos.len))
                      IN d.tag # "Err" /\ Some(d.val) = Bound(Len(hist))[k]

\* two calls returned ok, the second moved the entry the first had written,
\* and the two keys are bound to different values at different positions
C19_Witness ==
    /\ store.open /\ Calls(2) /\ crashed = NoCrash
    /\ DOMAIN hist[1].batch = {"hello"}
    /\ DOMAIN hist[2].batch = {"world"}
    /\ DOMAIN store.seek_pos_map = Keys
    /\ store.seek_pos_map["hello"].len > 1
    /\ store.seek_pos_map["world"].len > 1
    /\ Get("hello") # Get("world")

\* a search has returned
Searched == results # NoResults

\* the scored document ids without a doc-map entry
Unresolved(idx, text) ==
    {d \in DOMAIN DocumentIds(idx, text) : GetDoc(idx, d).tag = "None"}

\* C11 as stated: a scored document id without a doc-map entry fails the
\* whole query with an error of the Corruption kind.
C11_CorruptionKind ==
    (Searched /\ Unresolved(inverted_index_db, query) # {})
        => (results.tag = "Err" /\ results.kind = "Corruption")

\* C11: when any scored document id has no doc-map entry, whatever its
\* position in the ranking, search returns the error
\* Generic("Document not found") and no list of results; when every scored
\* id has an entry, search returns a list.
C11_DocumentNotFound ==
    Searched =>
        IF Unresolved(inverted_index_db, query) # {}
        THEN results = DocumentNotFound
        ELSE results.tag = "Ok"

\* two documents were scored, the one ranked first has a doc-map entry, the
\* one ranked second has none, and the query failed
C11_Witness ==
    /\ Searched
    /\ results = DocumentNotFound
    /\ LET ids == DocumentIds(inverted_index_db, query)
       IN /\ DOMAIN ids = {0, 1}
          /\ Unresolved(inverted_index_db, query) = {1}
          /\ ~ids[0].nan /\ ~ids[1].nan /\ ids[0].v > ids[1].v

\* the positions of text where a maximal run of word characters starts
RunStarts(text) ==
    {i \in 1..Len(text) :
        text[i] \in WordChars /\ (i = 1 \/ text[i - 1] \notin WordChars)}

\* the last position of the maximal run of word characters that starts at i
RunEnd(text, i) ==
    CHOOSE j \in i..Len(text) :
        /\ \A k \in i..j : text[k] \in WordChars
        /\ (j = Len(text) \/ text[j + 1] \notin WordChars)

\* C20: tokenize(text) has exactly one token per maximal run of word
\* characters of text, in the order of the runs; the token of a run is
\* stem(lowercase(run)) and is not empty; characters outside the runs give
\* no token and the empty text gives the empty sequence.
C20_OneTokenPerRun ==
    Searched =>
        LET tokens == Tokenize(query)
            starts == RunStarts(query)
        IN /\ Len(tokens) = Cardinality(starts)
           /\ \A i \in starts :
                LET k == Cardinality({j \in starts : j <= i})
                    run == SubSeq(query, i, RunEnd(query, i))
                IN /\ tokens[k] = Stem(StrToLowercase(run))
                   /\ tokens[k] # <<>>
           /\ (query = <<>> => tokens = <<>>)

\* a text with two runs around a non-word character was tokenized, and the
\* second token is the lowercased second run
C20_Witness ==
    /\ Searched
    /\ query = <<"s", " ", "S">>
    /\ Tokenize(query) = <<(<<"s">>), (<<"s">>)>>

(***************************************************************************)
(* Claims about the index builder.                                         *)
(***************************************************************************)
\* the positions of the walk that hold a file
FilesOf(crawl) == {i \in 1..Len(crawl) : crawl[i].kind = "file"}

\* the doc-map store on the disk: the keys of its manifest file and the map
\* of its data file
DocMapOnDisk ==
    [keys |-> DOMAIN disk.inodes[disk.names[WithExtension(args_url_map, "seek")]].map,
     map |-> disk.inodes[disk.names[args_url_map]].map]

\* C12: after a build over a corpus of total_docs files, whatever the number
\* of flush batches and with the entries that cannot be read or are no files
\* skipped, the doc-map store has exactly the keys 0..total_docs-1, the key
\* d bound to the url of the (d+1)-th file, and the document count handed
\* to Phase 2 is total_docs.
C12_DenseDocIds ==
    LET total_docs == Cardinality(FilesOf(crawled_data))
    IN /\ build.pc \in {"scores", "done"} => build.num_docs = total_docs
       /\ build.pc = "done" =>
            /\ DocMapOnDisk.keys = 0..(total_docs - 1)
            /\ DOMAIN DocMapOnDisk.map = 0..(total_docs - 1)
            /\ build.index.url_map.seek_pos_map.keys = 0..(total_docs - 1)
            /\ \A i \in FilesOf(crawled_data) :
                 LET doc_id == Cardinality({j \in FilesOf(crawled_data) : j < i})
                 IN KvGet(disk, build.index.url_map, doc_id)
                       = Some(Doc(crawled_data[i].json.val.url))

\* a build has ended over two files with a skipped entry between them, the
\* two documents flushed in different batches
C12_Witness ==
    /\ build.pc = "done"
    /\ Len(crawled_data) = 3
    /\ FilesOf(crawled_data) = {1, 3}
    /\ crawled_data[2].kind = "error"
    /\ build.index.url_map.seek_pos_map.keys = {0, 1}

\* how many postings of a list are of document d
CountOf(list, d) == Cardinality({j \in 1..Len(list) : list[j].doc_id = d})

\* the documents of a corpus
DocIdsOf(crawl) == 0..(Cardinality(FilesOf(crawl)) - 1)

\* C13: the scored index a finished build leaves has exactly the terms of
\* the Phase-1 index and, for every term, the same multiset of doc_ids,
\* whatever the number of terms is relative to the flush interval of Phase 2
\* and whatever the order in which the Phase-1 store is iterated.
C13_ScoringKeepsStructure ==
    build.pc = "done" =>
        /\ build.index.db.seek_pos_map.keys = build.db.seek_pos_map.keys
        /\ build.temp_db.seek_pos_map.keys = build.db.seek_pos_map.keys
        /\ \A term \in build.db.seek_pos_map.keys :
             LET temp == KvGet(disk, build.db, term)
                 scored == KvGet(disk, build.index.db, term)
             IN /\ temp.tag = "Some"
                /\ scored.tag = "Some"
                /\ \A d \in DocIdsOf(crawled_data) :
                     CountOf(scored.val, d) = CountOf(temp.val, d)

\* a build has ended whose index has more terms than the flush interval of
\* Phase 2, one of them with postings of two documents
C13_Witness ==
    /\ build.pc = "done"
    /\ Cardinality(build.index.db.seek_pos_map.keys) > MAX_ITERATIONS + 1
    /\ \E term \in build.index.db.seek_pos_map.keys :
         LET scored == KvGet(disk, build.index.db, term)
         IN scored.tag = "Some" /\ Len(scored.val) = 2

\* the number of documents a posting list names
Df(list) == Cardinality({list[j].doc_id : j \in 1..Len(list)})

\* C14: after Phase 1 every posting has 1 <= tf and every term has
\* 1 <= df <= total_docs; in the scored index every tf_idf is a number
\* that is at least 0, and it is 0 exactly when df(term) = total_docs, so
\* a corpus of one document scores every posting 0.
C14_ScoresNotNegative ==
    LET total_docs == Cardinality(FilesOf(crawled_data))
    IN /\ build.pc \in {"scores", "done"} =>
            \A term \in build.db.seek_pos_map.keys :
               LET temp == KvGet(disk, build.db, term)
               IN /\ temp.tag = "Some"
                  /\ 1 <= Df(temp.val) /\ Df(temp.val) <= total_docs
                  /\ Df(temp.val) = Len(temp.val)
                  /\ \A j \in 1..Len(temp.val) : 1 <= temp.val[j].tf
       /\ build.pc = "done" =>
            \A term \in build.index.db.seek_pos_map.keys :
               LET scored == KvGet(disk, build.index.db, term)
               IN /\ scored.tag = "Some"
                  /\ \A j \in 1..Len(scored.val) :
                       LET tf_idf == scored.val[j].tf_idf
                       IN /\ ~tf_idf.nan
                          /\ tf_idf.v >= 0
                          /\ (tf_idf.v = 0 <=> Df(scored.val) = total_docs)

\* a build of two documents has ended with a term of both documents, scored
\* 0, and a term of one document, scored above 0
C14_Witness ==
    /\ build.pc = "done"
    /\ Cardinality(FilesOf(crawled_data)) = 2
    /\ \E t1, t2 \in build.index.db.seek_pos_map.keys :
         LET l1 == KvGet(disk, build.index.db, t1).val
             l2 == KvGet(disk, build.index.db, t2).val
         IN /\ Len(l1) = 2 /\ l1[1].tf_idf.v = 0 /\ l1[2].tf_idf.v = 0
            /\ Len(l2) = 1 /\ l2[1].tf_idf.v > 0

\* the term of the tokenizer for a word
TermOf(word) == Tokenize(word)[1]

\* the tf of the Phase-1 posting of a term for a document, 0 with no posting
TfOf(term, doc_id) ==
    IF term \notin build.db.seek_pos_map.keys THEN 0
    ELSE LET temp == KvGet(disk, build.db, term).val
         IN IF \E j \in 1..Len(temp) : temp[j].doc_id = doc_id
            THEN temp[CHOOSE j \in 1..Len(temp) : temp[j].doc_id = doc_id].tf
            ELSE 0

\* the corpus is one file with this page
OnePage(content) ==
    /\ Len(crawled_data) = 1
    /\ crawled_data[1].kind = "file"
    /\ crawled_data[1].json = Ok(CrawlFile(PageUrl(1), content))

\* the words the pages are written with
PageWords == {<<"s">>, <<"S">>, <<"a", "a">>, <<"a", "a", "s">>}

\* C15: for a corpus of one document that has the word t once in its body,
\* the Phase-1 posting of the term of t has tf 1; when t is once in the
\* title and once in the body, the posting has tf 11.
C15_TermFrequency ==
    build.pc \in {"scores", "done"} =>
        \A t \in PageWords :
           /\ OnePage(<<Occ("p", t)>>) => TfOf(TermOf(t), 0) = 1
           /\ OnePage(<<Occ("title", t), Occ("p", t)>>) => TfOf(TermOf(t), 0) = 11

\* the index a finished build has opened, as what get and get_doc return
BuiltIndex ==
    [db |-> [k \in build.index.db.seek_pos_map.keys |->
                KvGet(disk, build.index.db, k).val],
     url_map |-> [k \in build.index.url_map.seek_pos_map.keys |->
                KvGet(disk, build.index.url_map, k).val]]

\* the document id of the file at position i of the walk
DocIdOf(crawl, i) == Cardinality({j \in FilesOf(crawl) : j < i})

\* C16: every term key of a built index is an output of the tokenizer (a
\* lowercased, stemmed run of word characters), and for every word w of an
\* indexed document the query w reaches a posting of that document.
C16_SameTokenizer ==
    build.pc = "done" =>
        /\ \A key \in DOMAIN BuiltIndex.db : Tokenize(key) = <<key>>
        /\ \A i \in FilesOf(crawled_data) :
             LET content == crawled_data[i].json.val.content
             IN \A n \in 1..Len(content) :
                   DocIdOf(crawled_data, i)
                      \in DOMAIN DocumentIds(BuiltIndex, content[n].word)

\* the corpus of two documents: the word three times in the body of doc 0,
\* once in the title of doc 1 and nothing else
FooCorpus ==
    LET foo == <<"a", "a">>
    IN <<DirEntry([kind |-> "file", open |-> Ok("reader"),
                   json |-> Ok(<<Occ("p", foo), Occ("p", foo), Occ("p", foo)>>)], 1),
         DirEntry([kind |-> "file", open |-> Ok("reader"),
                   json |-> Ok(<<Occ("title", foo)>>)], 2)>>

FooBuilt == build.pc = "done" /\ crawled_data = FooCorpus

DocIdsIn(list) == {list[j].doc_id : j \in 1..Len(list)}

UrlsOf(result) == [j \in 1..Len(result.val) |-> result.val[j].url]

ManifestStep ==
    /\ pc \in {"truncate", "manifest"}
    /\ cur.op = "insert"
    /\ pc' \in {"manifest", "remove"}

\* C22: insert rewrites the manifest file only after the temp file was renamed
\* over the data path: at no step that rewrites the manifest does the temp file
\* still exist beside the old data file.
C22_ManifestAfterRename ==
    [][ManifestStep => ~files[temp_db_path] /\ files[db_path]]_vars

(***************************************************************************)
(* The score of a result.                                                  *)
(***************************************************************************)
\* acc plus the tf_idf of every posting of the list for document d
RECURSIVE SumPostings(_, _, _)
SumPostings(document_indexes, d, acc) ==
    IF document_indexes = <<>> THEN acc
    ELSE SumPostings(Tail(document_indexes), d,
                     IF Head(document_indexes).doc_id = d
                     THEN FAdd(acc, Head(document_indexes).tf_idf) ELSE acc)

\* acc plus, token after token, the postings of document d in the token's list
RECURSIVE SumTokens(_, _, _, _)
SumTokens(idx, tokens, d, acc) ==
    IF tokens = <<>> THEN acc
    ELSE LET r == IndexGet(idx, Head(tokens))
         IN SumTokens(idx, Tail(tokens), d,
                      IF r.tag = "Some" THEN SumPostings(r.val, d, acc) ELSE acc)

\* document d has a posting in the list of a token of the query
Matched(idx, tokens, d) ==
    \E i \in 1..Len(tokens) :
        LET r == IndexGet(idx, tokens[i])
        IN r.tag = "Some" /\ \E j \in 1..Len(r.val) : r.val[j].doc_id = d

\* C25: the score of a returned document is the sum, over the tokens of the
\* query in order and with repetition, starting from 0, of the tf_idf of every
\* posting for the document in the token's list; a document in no matched
\* list is not returned, and every returned list has each matched document
\* once.
C25_ScoreIsSum ==
    results.tag = "Ok"
        => LET tokens == Tokenize(query)
               idx == inverted_index_db
           IN /\ \A i \in 1..Len(results.val) :
                    \E d \in DOMAIN idx.url_map :
                        /\ idx.url_map[d].url = results.val[i].url
                        /\ Matched(idx, tokens, d)
                        /\ results.val[i].score = SumTokens(idx, tokens, d, F64(0))
              /\ \A d \in DocIds :
                    Matched(idx, tokens, d)
                        => Cardinality({i \in 1..Len(results.val) :
                                           results.val[i].url = Url(d)}) = 1
              /\ Len(results.val) = Cardinality({d \in DocIds : Matched(idx, tokens, d)})

\* a query that names a term twice has returned a document with twice the
\* tf_idf of its posting, beside a document the query does not match
C25_Witness ==
    /\ results.tag = "Ok"
    /\ Len(Tokenize(query)) = 2
    /\ Len(results.val) = 1
    /\ results.val[1].score = F64(4)
    /\ \E d \in DocIds : ~Matched(inverted_index_db, Tokenize(query), d)

(***************************************************************************)
(* More claims about the index builder.                                    *)
(***************************************************************************)
\* the weight of the stream an occurrence belongs to
WeightOf(element) ==
    IF element \in {"b", "strong"} THEN BOLD_WEIGHT
    ELSE IF element \in {"h1", "h2", "h3", "h4", "h5"} THEN HEADER_WEIGHT
    ELSE IF element = "title" THEN TITLE_WEIGHT
    ELSE 1

\* the sum of the weights of the occurrences of a term in a page
RECURSIVE WeightSum(_, _)
WeightSum(content, term) ==
    IF content = <<>> THEN 0
    ELSE (IF TermOf(Head(content).word) = term THEN WeightOf(Head(content).element) ELSE 0)
         + WeightSum(Tail(content), term)

\* C26: every occurrence of a token in a stream of weight W (body 1, bold 3,
\* heading 5, title 10) adds W to the count of the token, and the tf emitted
\* for a term of a document is the sum of these contributions over all the
\* streams the term occurs in.
C26_StreamWeights ==
    build.pc \in {"scores", "done"} =>
        \A i \in FilesOf(crawled_data) :
            LET content == crawled_data[i].json.val.content
            IN \A j \in 1..Len(content) :
                  LET term == TermOf(content[j].word)
                  IN TfOf(term, DocIdOf(crawled_data, i)) = WeightSum(content, term)

\* a step of the walk that ingests a document
Ingest ==
    /\ build.pc = "walk"
    /\ build'.pc = "walk"
    /\ build'.num_docs = build.num_docs + 1

\* the step has flushed: both batches are empty after it
Flushed == build'.doc_map = <<>> /\ build'.inverted_index = <<>>

\* the documents of the batch once the step's document is in it
BatchSize == Cardinality(DOMAIN build.doc_map) + 1

\* C27 as stated: during the walk a flush happens exactly when the number of
\* documents ingested since the previous flush reaches MAX_ITERATIONS, and
\* never after fewer.
C27_FlushEveryN ==
    [][Ingest => (Flushed <=> BatchSize = MAX_ITERATIONS)]_vars

\* C27, amended: during the walk a flush happens exactly after the documents
\* whose number is a multiple of MAX_ITERATIONS, the first document (number
\* 0) included: the first flush writes a batch of one document and every
\* later one a batch of MAX_ITERATIONS documents.  A step that flushes
\* leaves both batches empty and every document ingested so far in the
\* doc-map store; a step that does not flush leaves the disk as it is and
\* the document in the batches.  After the walk the remainder is flushed.
C27_FlushAtMultiples ==
    [][/\ Ingest =>
            IF build.num_docs % MAX_ITERATIONS = 0
            THEN /\ Flushed
                 /\ BatchSize = (IF build.num_docs = 0 THEN 1 ELSE MAX_ITERATIONS)
                 /\ build'.url_map.seek_pos_map.keys = 0..build.num_docs
            ELSE /\ build'.disk = build.disk
                 /\ build.num_docs \in DOMAIN build'.doc_map
                 /\ build'.inverted_index # <<>>
                 /\ BatchSize < MAX_ITERATIONS
       /\ (build.pc = "walk" /\ build'.pc = "scores") =>
            /\ Flushed
            /\ build'.url_map.seek_pos_map.keys = 0..(build.num_docs - 1)]_vars

\* the walk has flushed a batch of MAX_ITERATIONS documents after the batch
\* of the first document
C27_Witness ==
    /\ build.pc = "walk"
    /\ build.num_docs = MAX_ITERATIONS + 1
    /\ build.doc_map = <<>>
    /\ build.url_map.seek_pos_map.keys = 0..MAX_ITERATIONS

\* C28: in the scored index the doc_ids of every term's posting list are
\* pairwise distinct, also for a term whose documents were flushed in
\* different batches: in every state of the walk the batch has each
\* document once per term and no document that the store already has for
\* the term, so every (term, doc_id) pair reaches the store through one
\* extend.
C28_DocIdsUnique ==
    /\ build.pc = "walk" =>
         \A term \in DOMAIN build.inverted_index :
            LET batch == build.inverted_index[term]
                stored == KvGet(disk, build.db, term)
            IN /\ Cardinality(DocIdsIn(batch)) = Len(batch)
               /\ stored.tag = "Some" => DocIdsIn(batch) \cap DocIdsIn(stored.val) = {}
    /\ build.pc = "done" =>
         \A term \in build.index.db.seek_pos_map.keys :
            LET scored == KvGet(disk, build.index.db, term)
            IN /\ scored.tag = "Some"
               /\ \A j, k \in 1..Len(scored.val) :
                    scored.val[j].doc_id = scored.val[k].doc_id => j = k

\* a build has ended with a term that has postings of document 0, flushed
\* alone in the first batch, and of a document of a later batch
C28_Witness ==
    /\ build.pc = "done"
    /\ \E term \in build.index.db.seek_pos_map.keys :
         LET scored == KvGet(disk, build.index.db, term)
         IN scored.tag = "Some" /\ {0, 1} \subseteq DocIdsIn(scored.val)

\* the postings of a list as the pairs search collects
PairsOf(document_indexes) ==
    [j \in 1..Len(document_indexes) |->
        [doc_id |-> document_indexes[j].doc_id, score |-> document_indexes[j].tf_idf]]

\* C29: after a successful build every doc_id of every posting list of the
\* postings store is a key of the doc-map store and get_doc returns its
\* document, so the resolution of the documents a search has matched does
\* not fail with "Document not found": not for the documents of any posting
\* list, and not in a search of a word of the pages.
C29_PostingsHaveDocs ==
    build.pc = "done" =>
        /\ \A term \in build.index.db.seek_pos_map.keys :
              LET scored == KvGet(disk, build.index.db, term)
              IN /\ scored.tag = "Some"
                 /\ \A j \in 1..Len(scored.val) :
                      /\ scored.val[j].doc_id \in build.index.url_map.seek_pos_map.keys
                      /\ KvGet(disk, build.index.url_map, scored.val[j].doc_id).tag = "Some"
                 /\ Resolve(BuiltIndex, PairsOf(scored.val)) # DocumentNotFound
        /\ DocumentNotFound \notin SearchOutcomes(BuiltIndex, <<"s">>)

\* a build has ended and a search over its index returns two documents
C29_Witness ==
    /\ build.pc = "done"
    /\ \E r \in SearchOutcomes(BuiltIndex, <<"s">>) : r.tag = "Ok" /\ Len(r.val) = 2

\* the files of the walk that cannot be opened or parsed
BadFiles(crawl) ==
    {i \in FilesOf(crawl) : crawl[i].open.tag = "Err" \/ crawl[i].json.tag = "Err"}

\* the first of them is a file that opens and does not parse
FirstBadIsMalformed(crawl) ==
    /\ BadFiles(crawl) # {}
    /\ LET first == CHOOSE i \in BadFiles(crawl) : \A j \in BadFiles(crawl) : i <= j
       IN crawl[first].open.tag = "Ok"

FirstBad(crawl) == CHOOSE i \in BadFiles(crawl) : \A j \in BadFiles(crawl) : i <= j

Reopened == KvFrom(disk, build.args.db)

\* C23: when the build returns success, the manifest file at the original
\* postings manifest path lists exactly the scored terms and, for every
\* term, the range it gives in the data file at the original postings path
\* decodes to the term's scored posting list.
C23_ScoredStoreAtOriginalPaths ==
    build.pc = "done" =>
        /\ Reopened.tag = "Ok"
        /\ Reopened.db.seek_pos_map.keys = build.temp_db.seek_pos_map.keys
        /\ Reopened.db.seek_pos_map.keys = build.db.seek_pos_map.keys
        /\ \A term \in build.db.seek_pos_map.keys :
              KvGet(disk, Reopened.db, term)
                 = Some(NewData(KvGet(disk, build.db, term).val, build.num_docs))

\* calculate_scores has returned an error and its rename has not run
FailedBeforeRename ==
    /\ build.pc = "failed"
    /\ build.temp_db # <<>>
    /\ Exists(disk, ScoresTempPath(build.args.db))

\* C24: when Phase 2 fails before the final rename, the data file and the
\* manifest file at the original paths are those the end of Phase 1 left,
\* and a store opened on them returns every term's TempPosting list.
C24_Phase1Intact ==
    FailedBeforeRename =>
        LET seek == WithExtension(build.args.db, "seek")
        IN /\ Exists(disk, seek)
           /\ disk.inodes[disk.names[seek]] = SeekFile(build.db.seek_pos_map)
           /\ disk.names[build.args.db] = build.db.database
           /\ Reopened.tag = "Ok"
           /\ Reopened.db.seek_pos_map.keys = build.db.seek_pos_map.keys
           /\ \A term \in build.db.seek_pos_map.keys :
                 /\ KvGet(disk, Reopened.db, term).tag = "Some"
                 /\ KvGet(disk, Reopened.db, term) = KvRead(disk, build.db, term)

(***************************************************************************)
(* More claims about the store.                                            *)
(***************************************************************************)
\* an iteration has run to its end
IterComplete == iter.active /\ iter.done

\* the places of the items yielded for a key
ItemsOf(k) == {i \in 1..Len(iter.out) : iter.out[i].key = k}

\* C32: when reading or decoding an entry fails during iteration, the
\* iterator yields an error item for that entry and goes on with the
\* remaining keys: a complete iteration has produced exactly one item per
\* key of the manifest, the value get returns for the key or an error when
\* get fails on it.
C32_OneItemPerKey ==
    IterComplete =>
        /\ Len(iter.out) = Cardinality(DOMAIN store.seek_pos_map)
        /\ \A k \in DOMAIN store.seek_pos_map :
              /\ Cardinality(ItemsOf(k)) = 1
              /\ \A i \in ItemsOf(k) :
                    iter.out[i].res = Get(k)

\* a complete iteration over two keys whose first item is an error and
\* whose second item is a value
C32_Witness ==
    /\ IterComplete
    /\ Len(iter.out) = 2
    /\ iter.out[1].res = Err
    /\ iter.out[2].res.tag = "Some"

\* C35: after any sequence of insert and extend calls on a store made by
\* new, in any interleaving, get(k) is for every key k the value of a
\* reference map to which the same batches were applied (insert: the batch
\* value replaces; extend: the batch value is appended to the current value,
\* or stored as it is when the key is new), and every key of a batch applied
\* so far is still bound.
C35_RefinesReferenceMap ==
    (~iter.active /\ store.open /\ Calls(Len(hist)))
        => /\ StoreMap = Bound(Len(hist))
           /\ \A i \in 1..Len(hist) :
                 \A k \in DOMAIN hist[i].batch : Get(k).tag = "Some"

\* an insert and then an extend returned ok, a key of both batches holds
\* the inserted value followed by the extension, and a key of the first
\* batch alone holds its value
C35_Witness ==
    /\ ~iter.active /\ store.open /\ Calls(2)
    /\ hist[1].op = "insert" /\ hist[2].op = "extend"
    /\ DOMAIN hist[1].batch = Keys
    /\ DOMAIN hist[2].batch = {"hello"}
    /\ hist[1].batch["hello"] # <<>> /\ hist[2].batch["hello"] # <<>>
    /\ Get("hello") = Some(hist[1].batch["hello"] \o hist[2].batch["hello"])
    /\ Get("world") = Some(hist[1].batch["world"])

\* the sum of the lengths of the ranges of a manifest
RECURSIVE SumLen(_, _)
SumLen(seek_pos_map, keys) ==
    IF keys = {} THEN 0
    ELSE LET k == CHOOSE x \in keys : TRUE
         IN seek_pos_map[k].len + SumLen(seek_pos_map, keys \ {k})

\* two ranges have no cell in common
Disjoint(a, b) == a.pos + a.len <= b.pos \/ b.pos + b.len <= a.pos

\* C37: after every successful insert or extend the data file is compact:
\* the ranges of the manifest entries are pairwise disjoint and their
\* lengths add up to the size of the data file, so that a superseded value
\* leaves no cell behind.
C37_Compact ==
    (store.open /\ Len(hist) >= 1 /\ Calls(Len(hist)))
        => /\ \A k1, k2 \in DOMAIN store.seek_pos_map :
                 k1 # k2 => Disjoint(store.seek_pos_map[k1], store.seek_pos_map[k2])
           /\ SumLen(store.seek_pos_map, DOMAIN store.seek_pos_map)
                 = Len(inodes[store.database.ino])

\* two calls returned ok, the second put a shorter value in the place of
\* one the first had written and kept the other key, and the data file is
\* shorter than the first call left it
C37_Witness ==
    /\ store.open /\ Calls(2)
    /\ DOMAIN hist[1].batch = Keys
    /\ DOMAIN hist[2].batch = {"hello"}
    /\ hist[2].op = "insert"
    /\ Len(hist[2].batch["hello"]) < Len(hist[1].batch["hello"])
    /\ Len(inodes[store.database.ino])
          = Len(Serialize(hist[2].batch["hello"])) + Len(Serialize(hist[1].batch["world"]))

\* this step returns an error from an insert or extend
ReturnsErr ==
    /\ pc # "idle"
    /\ pc' = "idle"
    /\ Len(hist') = Len(hist) + 1
    /\ hist'[Len(hist')].result = "err"

\* the store an open of the two paths gives on the files f with contents ino
FreshOpen(f, ino) ==
    IF ~f[seek_path] \/ ~f[db_path] THEN Err
    ELSE LET m == DeserializeMap(ino[seek_path])
         IN IF m.tag = "Err" THEN Err
            ELSE Some([open |-> TRUE, seek_pos_map |-> m.val,
                       database |-> [ino |-> db_path, readable |-> TRUE]])

\* C36: when insert or extend returns an error at any of its steps, the
\* store is unchanged: the manifest in memory is the one from before the
\* operation, the manifest file still equals it, and get through the same
\* handle and through a fresh open returns the value from before the
\* operation for every key.
C36_ErrorLeavesStore ==
    [][ReturnsErr =>
        /\ store'.seek_pos_map = store.seek_pos_map
        /\ files'[seek_path]
        /\ DeserializeMap(inodes'[seek_path]) = Some(store.seek_pos_map)
        /\ \A k \in Keys : GetFrom(inodes', store', k) = cur.pre[k]
        /\ LET o == FreshOpen(files', inodes')
           IN /\ o.tag = "Some"
              /\ \A k \in Keys : GetFrom(inodes', o.val, k) = cur.pre[k]]_vars

\* the path P with .tmp appended
Sibling(path) ==
    IF path[2] = "" THEN <<path[1], "tmp">>
    ELSE <<path[1] \o "." \o path[2], "tmp">>

\* the stores the build has made so far
StoresOf(b) ==
    IF b.pc \in {"none", "start"} THEN {}
    ELSE {b.db, b.url_map} \cup (IF b.temp_db = <<>> THEN {} ELSE {b.temp_db})

\* C33: a store with data path P writes the rebuilt data of insert and
\* extend to P with .tmp appended, and so does calculate_scores for the
\* scored store; the temp path is neither the store's data path nor its
\* manifest path, and stores with different data paths have different temp
\* paths.
C33_TempIsSibling ==
    /\ \A s \in StoresOf(build) :
          /\ TempDbPath(s.db_path) = Sibling(s.db_path)
          /\ TempDbPath(s.db_path) \notin {s.db_path, s.seek_path}
    /\ \A s, t \in StoresOf(build) :
          s.db_path # t.db_path => TempDbPath(s.db_path) # TempDbPath(t.db_path)
    /\ build.pc = "scores" => ScoresTempPath(build.args.db) = Sibling(build.args.db)

(***************************************************************************)
(* More claims about the query engine.                                     *)
(***************************************************************************)
\* C31: search is deterministic: another execution of the query that has
\* returned, against the same stores, returns the same ordered result list,
\* the relative order of documents with equal scores included.
C31_Deterministic ==
    Searched => SearchOutcomes(inverted_index_db, query) = {results}

\* the document ids in the posting lists of the tokens of the text
PostedIds(idx, text) ==
    LET tokens == Tokenize(text)
    IN UNION {DocIdsIn(IndexGet(idx, tokens[i]).val) :
                 i \in {j \in 1..Len(tokens) : IndexGet(idx, tokens[j]).tag = "Some"}}

\* C38: a successful search returns exactly one result per distinct
\* document id in the posting lists of the query's tokens: no document is
\* returned twice, also when a token is repeated in the query or the
\* document is in the lists of several tokens.
C38_OneResultPerDoc ==
    (Searched /\ results.tag = "Ok")
        => LET ids == PostedIds(inverted_index_db, query)
           IN /\ Len(results.val) = Cardinality(ids)
              /\ \A d \in ids :
                    Cardinality({i \in 1..Len(results.val) :
                                    results.val[i].url = GetDoc(inverted_index_db, d).val.url}) = 1

\* the query repeats a token whose posting list holds both documents, and
\* the search returned two results
C38_Witness ==
    /\ Searched /\ results.tag = "Ok"
    /\ Tokenize(query) = <<<<"s">>, <<"s">>>>
    /\ PostedIds(inverted_index_db, query) = {0, 1}
    /\ Len(results.val) = 2

(***************************************************************************)
(* Claims about the interactive loop.                                      *)
(***************************************************************************)
\* C34: in the interactive loop a query that fails with an error is printed
\* and the loop goes on to the next prompt; only the input exit ends the
\* session, and the process then ends with exit code 0.
C34_ReplContinues ==
    [][/\ (results'.tag = "Err" /\ query' # EXIT) => pc' = "loop"
       /\ pc' # "loop" => (query' = EXIT /\ pc' = "exit_success")]_vars

(***************************************************************************)
(* Claims about the legacy store.                                          *)
(***************************************************************************)
\* the lines of a text
RECURSIVE LinesFrom(_, _)
LinesFrom(content, pos) ==
    LET line == ReadLine(content, pos)
    IN IF line = <<>> THEN <<>>
       ELSE <<line>> \o LinesFrom(content, pos + Len(line))

\* the lines of the text that begin with the key and the key delimiter
LinesOf(content, key) ==
    LET lines == LinesFrom(content, 0)
    IN {i \in 1..Len(lines) :
          /\ Len(lines[i]) > Len(key)
          /\ SubSeq(lines[i], 1, Len(key) + 1) = key \o <<KEY_DELIM>>}

\* the posting lists set for a key, one after the other in call order
RECURSIVE SetSoFar(_, _)
SetSoFar(calls, key) ==
    IF calls = <<>> THEN <<>>
    ELSE (IF key \in DOMAIN Head(calls) THEN Head(calls)[key] ELSE <<>>)
         \o SetSoFar(Tail(calls), key)

\* C21: after a sequence of set calls followed by close, a database
\* reopened on the same paths with restart = false returns for every key the
\* concatenation, in call order, of the posting lists set for that key, and
\* the empty list for a key that was never set.
C21_ReopenedReturnsAllSets ==
    opened = "reopened" =>
        \A key \in LegacyKeys :
            IdbGet(inodes[legacy_db_path], store.doc_index, key) = Ok(SetSoFar(hist, key))

\* C39: after every successful set the data file holds exactly one line
\* per key of the index, the untouched keys copied once each and the set
\* keys written once each, however many keys are untouched.
C39_OneLinePerKey ==
    (store.open /\ hist # <<>>)
        => /\ Len(LinesFrom(inodes[legacy_db_path], 0)) = Cardinality(DOMAIN store.doc_index)
           /\ \A key \in DOMAIN store.doc_index :
                 Cardinality(LinesOf(inodes[legacy_db_path], key)) = 1

====
